---- MODULE Spec2Model ----
(***************************************************************************)
(* Image-lifecycle manager (cleanupImages / cleanupOldImages / imageConfig *)
(* / imageService) and slug-keyed SEO metadata synchronizer (seoSync) of   *)
(* the its_backend repository.                                             *)
(*                                                                         *)
(* JSON documents are tagged values [t, v]:                                *)
(*   "undef" (absent), "null", "str" (v = an image reference),             *)
(*   "arr" (v = a sequence of values), "obj" (v = a function key -> value).*)
(* A string is kept in parsed form: the sequence of its "/"-separated      *)
(* segments, each the sequence of its "."-separated pieces, so that        *)
(* split("/") and split(".") are projections and "" is << <<"">> >>.       *)
(* A path of the registry ("a.b[].image") is the sequence of its segments, *)
(* each [k |-> key, arr |-> whether the segment ends in "[]"].             *)
(***************************************************************************)
EXTENDS Integers, Sequences, FiniteSets, TLC

VARIABLES
    \* pure resolver / differ harness
    pOp,        \* "idle" | "full" | "diff": which function has been applied
    pPath,      \* the path the function is applied to
    pOld,       \* the stored (old) document
    pNew,       \* the incoming payload (diff only)
    pCalls,     \* arguments passed to deleteImage, in call order
    \* remote storage and gateway
    remote,     \* set of asset identifiers present in remote storage
    gwLog,      \* gateway calls of the current sequence: [url, id, res, raised]
    \* CRUD layer
    db,         \* collection -> the stored document (Undef when there is none)
    services,   \* the Service collection, in insertion order
    hirePages,  \* the HirePageData collection, in insertion order
    seo,        \* the SeoManager collection, in insertion order
    created,    \* how many documents each of these collections ever got
    last,       \* summary of the last completed request
    \* requests that run concurrently, step by step
    inflight    \* request -> its position and what it has read so far

content == <<services, hirePages, seo, created>>

vars == <<pOp, pPath, pOld, pNew, pCalls, remote, gwLog, db, services,
          hirePages, seo, created, last, inflight>>

-----------------------------------------------------------------------------
(* Bounds *)

MaxLen == 2          \* longest array in a generated document
MaxInner == 1        \* longest array nested inside another array
MaxCalls == 2        \* gateway calls in one recorded sequence
MaxConcurrent == 2   \* update requests on one record at the same time

-----------------------------------------------------------------------------
(* JSON values *)

Undef == [t |-> "undef", v |-> 0]
Null == [t |-> "null", v |-> 0]
Str(s) == [t |-> "str", v |-> s]
Arr(a) == [t |-> "arr", v |-> a]
Obj(o) == [t |-> "obj", v |-> o]

EmptyObj == Obj(<<>>)

\* the empty string "" in parsed form
EmptyString == << <<"">> >>

\* JavaScript truthiness of a value (the `!x` / `x &&` tests of the source)
Truthy(x) ==
    CASE x.t = "undef" -> FALSE
      [] x.t = "null" -> FALSE
      [] x.t = "str" -> x.v # EmptyString
      [] OTHER -> TRUE

\* a !== b as the source uses it: strings by content, undefined/null by
\* kind, objects and arrays by identity (two documents never share one)
StrictNotEqual(a, b) ==
    CASE a.t # b.t -> TRUE
      [] a.t = "str" -> a.v # b.v
      [] a.t \in {"undef", "null"} -> FALSE
      [] OTHER -> TRUE

\* newArray?.[i] (0-based i in the source, 1-based here)
OptionalIndex(a, i) ==
    IF a.t = "arr" /\ i \in 1..Len(a.v) THEN a.v[i] ELSE Undef

-----------------------------------------------------------------------------
(* Paths *)

Seg(k) == [k |-> k, arr |-> FALSE]
SegArr(k) == [k |-> k, arr |-> TRUE]

\* path.includes('[]')
includesBrackets(path) == \E i \in 1..Len(path) : path[i].arr

RECURSIVE FirstBracket(_, _)
FirstBracket(path, i) ==
    IF i > Len(path) THEN 0
    ELSE IF path[i].arr THEN i ELSE FirstBracket(path, i + 1)

\* path.split('[]'): the sequence of parts, each part the sequence of its
\* keys; every part after the first starts with the "." that followed "[]"
RECURSIVE splitBrackets(_)
splitBrackets(path) ==
    LET f == FirstBracket(path, 1) IN
    IF f = 0 THEN << [i \in 1..Len(path) |-> path[i].k] >>
    ELSE << [i \in 1..f |-> path[i].k] >>
         \o splitBrackets(SubSeq(path, f + 1, Len(path)))

\* parts[1] ? parts[1].slice(1) : ''   -- a path without brackets
remainingPathOf(parts) ==
    IF Len(parts) >= 2 THEN [i \in 1..Len(parts[2]) |-> Seg(parts[2][i])]
    ELSE <<>>

\* parts[0] (no registered path ends its first part in ".")
arrayPathOf(parts) == [i \in 1..Len(parts[1]) |-> Seg(parts[1][i])]

RECURSIVE reduceKeys(_, _, _)
reduceKeys(acc, path, i) ==
    IF i > Len(path) THEN acc
    ELSE reduceKeys(
            IF Truthy(acc) /\ acc.t = "obj" /\ path[i].k \in DOMAIN acc.v
            THEN acc.v[path[i].k] ELSE Undef,
            path, i + 1)

getNestedValue(obj, path) ==
    IF ~Truthy(obj) \/ path = <<>> THEN Undef
    ELSE reduceKeys(obj, path, 1)

-----------------------------------------------------------------------------
(* Path Descriptor Registry *)

imageConfig ==
    [ Testimonial |-> << <<Seg("image")>> >>,
      ExpertiseIndustry |-> << <<Seg("image")>> >>,
      EngagementModel |-> << <<Seg("modelImage")>> >>,
      SeoManager |-> << <<Seg("cover_image")>> >>,
      CreativeWork |-> << <<Seg("image")>> >>,
      ServiceTechnologyList |-> << <<Seg("image")>> >>,
      OurServicesMain |-> <<
          <<Seg("heroSections"), Seg("image")>>,
          <<Seg("heroSections"), SegArr("points"), Seg("image")>>,
          <<Seg("technologyDetails"), Seg("image")>>,
          <<Seg("technologyDetails"), SegArr("technologyDetail"), Seg("image")>>,
          <<Seg("technologyDetails"), SegArr("developmentDetail"), Seg("image")>> >>,
      Service |-> <<
          <<SegArr("contentBlocks"), Seg("image")>>,
          <<Seg("WhyWorkWithThis"), Seg("image")>>,
          <<Seg("whyCompanyPerfersThis"), SegArr("content"), Seg("image")>> >>,
      HomeChooseIts |-> << <<Seg("image")>> >>,
      HirePageData |-> <<
          <<Seg("successSpeacks"), Seg("image")>>,
          <<Seg("hireDadiated"), Seg("image")>>,
          <<Seg("unloackPower"), Seg("image")>> >>,
      OpenningPosition |-> << <<Seg("image")>> >>,
      CareerContent |-> <<
          <<Seg("heroSection"), Seg("image")>>,
          <<Seg("careerAtIts"), Seg("image")>>,
          <<Seg("whyJoinIts"), SegArr("points"), Seg("image")>> >>,
      Blog |-> << <<Seg("image")>>, <<Seg("cover_image")>> >>,
      AboutUs |-> <<
          <<Seg("heroSection"), SegArr("points"), Seg("image")>>,
          <<Seg("whoWeAre"), Seg("image")>>,
          <<Seg("goals"), Seg("missionImage")>>,
          <<Seg("goals"), Seg("visionImage")>>,
          <<Seg("goals"), Seg("valuesImage")>> >>,
      NavbarGroupTabImageManage |-> << <<Seg("image")>> >>,
      User |-> << <<Seg("profile_picture")>> >>,
      HireMainPageData |-> <<
          <<Seg("developmentTeamSection"), Seg("image")>>,
          <<Seg("dedicatedDeveloperSection"), SegArr("services"),
            SegArr("serviceItemBox"), Seg("image")>>,
          <<Seg("whyHireDeveloperforYourProject"), SegArr("detailBox"), Seg("image")>>,
          <<Seg("whyChooseItsForDedicatedResources"), SegArr("detailBox"), Seg("image")>> >>,
      PortfolioContent |-> <<
          <<Seg("heroSection"), Seg("image")>>,
          <<Seg("heroSection"), SegArr("points"), Seg("image")>> >>,
      TrainingMainPageData |-> <<
          <<Seg("heroSection"), Seg("image")>>,
          <<Seg("aboutusSection"), Seg("image")>>,
          <<Seg("itsInstituteFacilitiesSection"), SegArr("points"), Seg("image")>>,
          <<Seg("rightCoursePickSection"), SegArr("cardBox"), Seg("image")>>,
          <<Seg("rightCoursePickSection"), SegArr("detailbox"), Seg("image")>> >>,
      HomePageData |-> <<
          <<Seg("heroSecton"), Seg("image")>>,
          <<Seg("heroSecton"), SegArr("technologySection"), Seg("image")>>,
          <<Seg("reasonsToChoose"), SegArr("deatailBox"), Seg("image")>>,
          <<Seg("aboutOurCompany"), SegArr("deatailBox"), Seg("image")>>,
          <<Seg("aboutOurCompany"), Seg("image")>>,
          <<Seg("aboutOurCompany"), Seg("buttonContent"), Seg("image")>>,
          <<Seg("overseasWebAgencies"), Seg("image")>> >> ]

\* a lookup that falls back to the paths of another type
pathsOfFallback(modelName) ==
    IF modelName \in DOMAIN imageConfig THEN imageConfig[modelName]
    ELSE imageConfig.HirePageData

\* imageConfig[modelName] || []
pathsOf(modelName) ==
    IF modelName \in DOMAIN imageConfig THEN imageConfig[modelName] ELSE <<>>

-----------------------------------------------------------------------------
(* Full cleanup: the arguments passed to deleteImage, in call order *)

RECURSIVE concatMap(_, _, _)
\* the concatenation of F[i] for i = from..Len(F)
concatMap(F, from, acc) ==
    IF from > Len(F) THEN acc ELSE concatMap(F, from + 1, acc \o F[from])

\* the `for (const item of value) if (typeof item === 'string')` loops
stringItems(a) == SelectSeq(a, LAMBDA item : item.t = "str")

handleSimplePath(obj, path) ==
    LET value == getNestedValue(obj, path) IN
    IF value.t = "str" THEN <<value>>
    ELSE IF value.t = "arr" THEN stringItems(value.v)
    ELSE <<>>

RECURSIVE deleteImagesByPath(_, _)
handleArrayPath(obj, path) ==
    LET parts == splitBrackets(path)
        arrayPath == arrayPathOf(parts)
        remainingPath == remainingPathOf(parts)
        arrayObj == getNestedValue(obj, arrayPath)
    IN  IF arrayObj.t # "arr" THEN <<>>
        ELSE IF remainingPath # <<>>
        THEN concatMap([i \in 1..Len(arrayObj.v) |->
                            deleteImagesByPath(arrayObj.v[i], remainingPath)],
                       1, <<>>)
        ELSE stringItems(arrayObj.v)

deleteImagesByPath(obj, path) ==
    IF ~Truthy(obj) \/ path = <<>> THEN <<>>
    ELSE IF includesBrackets(path) THEN handleArrayPath(obj, path)
    ELSE handleSimplePath(obj, path)

deleteImagesByConfig(record, modelName) ==
    IF ~Truthy(record) THEN <<>>
    ELSE LET paths == pathsOf(modelName) IN
         concatMap([i \in 1..Len(paths) |-> deleteImagesByPath(record, paths[i])],
                   1, <<>>)

-----------------------------------------------------------------------------
(* Differential cleanup: the arguments passed to deleteImage, in call order *)

\* positionalLoop stopping at the shorter of the two arrays
positionalLoopCommon(oldArray, newArray) ==
    LET idx == SelectSeq([i \in 1..Len(oldArray.v) |-> i],
                         LAMBDA i : /\ newArray.t = "arr" /\ i <= Len(newArray.v)
                                    /\ Truthy(oldArray.v[i])
                                    /\ StrictNotEqual(oldArray.v[i], newArray.v[i]))
    IN  [j \in 1..Len(idx) |-> oldArray.v[idx[j]]]

\* the positional loop over an array of image strings:
\*   if (oldImage && oldImage !== newImage) await deleteImage(oldImage)
positionalLoop(oldArray, newArray) ==
    LET idx == SelectSeq([i \in 1..Len(oldArray.v) |-> i],
                         LAMBDA i : /\ Truthy(oldArray.v[i])
                                    /\ StrictNotEqual(oldArray.v[i],
                                                      OptionalIndex(newArray, i)))
    IN  [j \in 1..Len(idx) |-> oldArray.v[idx[j]]]

\* compareSimplePath without the comparison against the new value
compareSimplePathAlways(oldObj, newObj, path) ==
    LET oldValue == getNestedValue(oldObj, path)
        newValue == getNestedValue(newObj, path)
    IN  IF oldValue.t = "str" THEN <<oldValue>>
        ELSE IF oldValue.t = "arr" THEN positionalLoop(oldValue, newValue)
        ELSE <<>>

compareSimplePath(oldObj, newObj, path) ==
    LET oldValue == getNestedValue(oldObj, path)
        newValue == getNestedValue(newObj, path)
    IN  IF oldValue.t = "str" /\ StrictNotEqual(oldValue, newValue)
        THEN <<oldValue>>
        ELSE IF oldValue.t = "arr" THEN positionalLoop(oldValue, newValue)
        ELSE <<>>

RECURSIVE compareAndDeleteByPath(_, _, _)
\* compareArrayPath pairing every old element with the first new element
compareArrayPathFirst(oldObj, newObj, path) ==
    LET parts == splitBrackets(path)
        arrayPath == arrayPathOf(parts)
        remainingPath == remainingPathOf(parts)
        oldArray == getNestedValue(oldObj, arrayPath)
        newArray == getNestedValue(newObj, arrayPath)
    IN  IF oldArray.t # "arr" THEN <<>>
        ELSE IF remainingPath = <<>> THEN positionalLoop(oldArray, newArray)
        ELSE concatMap(
                [i \in 1..Len(oldArray.v) |->
                    IF Truthy(oldArray.v[i]) /\ oldArray.v[i].t \in {"obj", "arr"}
                    THEN compareAndDeleteByPath(oldArray.v[i],
                                                OptionalIndex(newArray, 1),
                                                remainingPath)
                    ELSE <<>>],
                1, <<>>)

compareArrayPath(oldObj, newObj, path) ==
    LET parts == splitBrackets(path)
        arrayPath == arrayPathOf(parts)
        remainingPath == remainingPathOf(parts)
        oldArray == getNestedValue(oldObj, arrayPath)
        newArray == getNestedValue(newObj, arrayPath)
    IN  IF oldArray.t # "arr" THEN <<>>
        ELSE IF remainingPath = <<>> THEN positionalLoop(oldArray, newArray)
        ELSE concatMap(
                [i \in 1..Len(oldArray.v) |->
                    IF Truthy(oldArray.v[i]) /\ oldArray.v[i].t \in {"obj", "arr"}
                    THEN compareAndDeleteByPath(oldArray.v[i],
                                                OptionalIndex(newArray, i),
                                                remainingPath)
                    ELSE <<>>],
                1, <<>>)

compareAndDeleteByPath(oldObj, newObj, path) ==
    IF ~Truthy(oldObj) THEN <<>>
    ELSE IF includesBrackets(path) THEN compareArrayPath(oldObj, newObj, path)
    ELSE compareSimplePath(oldObj, newObj, path)

\* the `for (const path of paths)` loop of the cleanupOldImages middleware
compareByConfig(oldData, newData, modelName) ==
    LET paths == pathsOf(modelName) IN
    concatMap([i \in 1..Len(paths) |->
                    compareAndDeleteByPath(oldData, newData, paths[i])],
              1, <<>>)

-----------------------------------------------------------------------------
(* Remote Asset Deletion Gateway *)

\* the public id as a sequence: <<>> is null, <<p>> the string p
extractPublicId(url) ==
    IF ~Truthy(url) THEN <<>>
    ELSE IF url.t # "str" THEN <<>>            \* url.split throws, caught
    ELSE LET parts == url.v
             publicIdWithExt == parts[Len(parts)]
         IN  <<publicIdWithExt[1]>>

\* !publicId
noPublicId(id) == id = <<>> \/ id = <<"">>

\* cloudinary.uploader.destroy(publicId) under the environment's answer
\* net: "up" (the store answers), "reject" (another result), "throw"
destroy(publicId, store, net) ==
    CASE net = "throw" -> [threw |-> TRUE, result |-> "", store |-> store]
      [] net = "reject" -> [threw |-> FALSE, result |-> "error", store |-> store]
      [] OTHER -> [threw |-> FALSE,
                   result |-> IF publicId \in store THEN "ok" ELSE "not found",
                   store |-> store \ {publicId}]

\* deleteImage without the try/catch around destroy
deleteImageUncaught(imageUrl, store, net) ==
    LET publicId == extractPublicId(imageUrl) IN
    IF ~Truthy(imageUrl) \/ noPublicId(publicId)
    THEN [sent |-> FALSE, id |-> "", res |-> "skipped", raised |-> FALSE,
          store |-> store]
    ELSE LET d == destroy(publicId[1], store, net) IN
         [sent |-> TRUE, id |-> publicId[1],
          res |-> IF d.threw THEN "threw" ELSE d.result,
          raised |-> d.threw, store |-> d.store]

\* one call of deleteImage: what it did to the store and whether it raised
deleteImage(imageUrl, store, net) ==
    LET publicId == extractPublicId(imageUrl) IN
    IF ~Truthy(imageUrl) \/ noPublicId(publicId)
    THEN [sent |-> FALSE, id |-> "", res |-> "skipped", raised |-> FALSE,
          store |-> store]
    ELSE LET d == destroy(publicId[1], store, net) IN
         [sent |-> TRUE, id |-> publicId[1],
          res |-> IF d.threw THEN "caught" ELSE d.result,
          raised |-> FALSE, store |-> d.store]

\* the environment's answer to the destroy request a call would send
answerTo(call, nets) ==
    LET id == extractPublicId(call) IN
    IF noPublicId(id) THEN "up" ELSE nets[id[1]]

\* a loop that gives up after the first deletion that did not succeed
RECURSIVE attemptUntilFailure(_, _, _, _)
attemptUntilFailure(calls, i, store, nets) ==
    IF i > Len(calls) THEN <<>>
    ELSE LET r == deleteImage(calls[i], store, answerTo(calls[i], nets))
             entry == [url |-> calls[i], sent |-> r.sent, res |-> r.res,
                       raised |-> r.raised]
         IN  IF r.res \in {"caught", "error"} THEN <<entry>>
             ELSE <<entry>> \o attemptUntilFailure(calls, i + 1, r.store, nets)

\* the awaited calls of deleteImage, one after the other, from the i-th on:
\* what each did, up to and including the first one that raises
RECURSIVE attemptEach(_, _, _, _)
attemptEach(calls, i, store, nets) ==
    IF i > Len(calls) THEN <<>>
    ELSE LET r == deleteImage(calls[i], store, answerTo(calls[i], nets))
             entry == [url |-> calls[i], sent |-> r.sent, res |-> r.res,
                       raised |-> r.raised]
         IN  IF r.raised THEN <<entry>>
             ELSE <<entry>> \o attemptEach(calls, i + 1, r.store, nets)

\* the remote store after those calls
RECURSIVE deleteEach(_, _, _, _)
deleteEach(calls, i, store, nets) ==
    IF i > Len(calls) THEN store
    ELSE LET r == deleteImage(calls[i], store, answerTo(calls[i], nets)) IN
         IF r.raised THEN r.store
         ELSE deleteEach(calls, i + 1, r.store, nets)

\* the calls for which the gateway sent a destroy request
sentCalls(calls) ==
    SelectSeq(calls, LAMBDA c : deleteImage(c, {}, "up").sent)

-----------------------------------------------------------------------------
(* Inputs of the resolver / differ harness *)

\* "cdn/a.png" and "cdn/b.png"
RefA == << <<"cdn">>, <<"a", "png">> >>
RefB == << <<"cdn">>, <<"b", "png">> >>

ImageStrings == {Str(RefA), Str(RefB)}
StringLeaves == ImageStrings \cup {Str(EmptyString)}
ScalarLeaves == StringLeaves \cup {Undef, Null}

\* all sequences over S of length at most n
RECURSIVE SeqsUpTo(_, _)
SeqsUpTo(S, n) ==
    IF n = 0 THEN {<<>>}
    ELSE LET shorter == SeqsUpTo(S, n - 1) IN
         shorter \cup {Append(q, x) : q \in {r \in shorter : Len(r) = n - 1}, x \in S}

\* "images[]" (cleanupImages.js line 51) and a plain path whose leaf is an
\* array of image strings (cleanupImages.js line 67)
imagesDirect == <<SegArr("images")>>
imagesLeaf == <<Seg("images")>>

\* arrays nested inside an array hold at most MaxInner elements
arrayBound(path, i) ==
    IF \E j \in 1..(i - 1) : path[j].arr THEN MaxInner ELSE MaxLen

\* the documents that follow path from segment i on, with the given leaves
RECURSIVE NodesAt(_, _, _)
NodesAt(path, i, leaves) ==
    LET below == IF i = Len(path) THEN leaves ELSE NodesAt(path, i + 1, leaves)
        child == IF path[i].arr
                 THEN {Arr(a) : a \in SeqsUpTo(below, arrayBound(path, i))}
                 ELSE below
    IN  {Obj(path[i].k :> c) : c \in child} \cup {EmptyObj}

HarnessCases ==
    { [path |-> imageConfig.Testimonial[1], leaves |-> ScalarLeaves],
      [path |-> imageConfig.Service[2], leaves |-> ScalarLeaves],
      [path |-> imageConfig.Service[1], leaves |-> StringLeaves \cup {Undef}],
      [path |-> imageConfig.Service[3], leaves |-> ImageStrings \cup {Undef}],
      [path |-> imageConfig.HireMainPageData[2], leaves |-> ImageStrings],
      [path |-> imagesDirect, leaves |-> StringLeaves],
      [path |-> imagesLeaf,
       leaves |-> {Arr(a) : a \in SeqsUpTo(StringLeaves, MaxLen)} \cup {Undef}] }

\* the differ is exercised on every case but the doubly nested one
DiffCases == {c \in HarnessCases : c.path # imageConfig.HireMainPageData[2]}

\* the image-bearing collections of the CRUD layer, empty after start-up
NoDocuments == [Testimonials |-> Undef, HomeChooseIts |-> Undef]

\* default: null of the link fields
NoId == <<>>

\* the n-th _id the storage layer hands out in a collection
ObjectId(collection, n) == <<collection, n>>

NoneCreated == [services |-> 0, hirePages |-> 0, seo |-> 0, requests |-> 0]

\* no request is in flight: every request runs from start to end in one step
NoneInFlight == <<>>

\* no call of syncSeoData
NoSync ==
    [called |-> FALSE, subCategory |-> "", slug |-> "", title |-> "",
     type |-> "", linkedId |-> NoId, threw |-> FALSE, fault |-> FALSE]

\* no request has completed yet
NoRequest ==
    [route |-> "none", kind |-> "none", registered |-> "", status |-> 0,
     old |-> Undef, body |-> Undef, calls |-> <<>>, stored |-> Undef,
     seoBefore |-> <<>>, sync |-> NoSync, slug |-> "", attempts |-> <<>>,
     stage |-> "none", thrown |-> {}]

\* the other components are idle while the harness runs
InitRest ==
    /\ remote = {}
    /\ gwLog = <<>>
    /\ db = NoDocuments
    /\ services = <<>> /\ hirePages = <<>> /\ seo = <<>>
    /\ created = NoneCreated
    /\ last = NoRequest
    /\ inflight = NoneInFlight

InitIdleHarness ==
    /\ pOp = "idle" /\ pPath = <<>> /\ pOld = Undef /\ pNew = Undef
    /\ pCalls = <<>>

InitHarness ==
    /\ pOp = "idle"
    /\ \E c \in HarnessCases :
          /\ pPath = c.path
          /\ pOld \in NodesAt(c.path, 1, c.leaves)
          /\ pNew \in IF c \in DiffCases THEN NodesAt(c.path, 1, c.leaves) \cup {Undef}
                      ELSE {Undef}
    /\ pCalls = <<>>
    /\ InitRest

-----------------------------------------------------------------------------
(* Harness actions: apply full cleanup or the differ to the chosen input *)

ApplyFull ==
    /\ pOp = "idle"
    /\ pOp' = "full"
    /\ pCalls' = deleteImagesByPath(pOld, pPath)
    /\ UNCHANGED <<pPath, inflight, pOld, pNew, remote, gwLog, db, content, last>>

ApplyDiff ==
    /\ pOp = "idle"
    /\ \E c \in DiffCases : c.path = pPath
    /\ pOp' = "diff"
    /\ pCalls' = compareAndDeleteByPath(pOld, pNew, pPath)
    /\ UNCHANGED <<pPath, inflight, pOld, pNew, remote, gwLog, db, content, last>>

NextHarness == ApplyFull \/ ApplyDiff

SpecHarness == InitHarness /\ [][NextHarness]_vars

-----------------------------------------------------------------------------
(* Reference resolver of the design (working-set semantics), used to state *)
(* the properties below                                                     *)

\* an image string: a non-empty string
IsImage(x) == x.t = "str" /\ x.v # EmptyString

\* the value found by following plain keys from doc, Undef when absent
RECURSIVE valueAt(_, _, _)
valueAt(doc, path, i) ==
    IF i > Len(path) THEN doc
    ELSE IF doc.t = "obj" /\ path[i].k \in DOMAIN doc.v
         THEN valueAt(doc.v[path[i].k], path, i + 1)
         ELSE Undef

\* one step of the working set: a plain segment replaces a node by its
\* field, a "[]" segment by all elements of its field
stepNode(n, seg) ==
    IF n.t = "obj" /\ seg.k \in DOMAIN n.v
    THEN LET c == n.v[seg.k] IN
         IF seg.arr THEN (IF c.t = "arr" THEN c.v ELSE <<>>) ELSE <<c>>
    ELSE <<>>

RECURSIVE workingSet(_, _, _)
workingSet(nodes, path, i) ==
    IF i > Len(path) THEN nodes
    ELSE workingSet(concatMap([j \in 1..Len(nodes) |-> stepNode(nodes[j], path[i])],
                              1, <<>>),
                    path, i + 1)

\* every image string reachable at path: string leaves, and the elements
\* of leaves that are sequences of strings
resolveAll(document, path) ==
    LET ws == workingSet(<<document>>, path, 1)
        flat == concatMap([j \in 1..Len(ws) |->
                              IF ws[j].t = "arr" THEN ws[j].v ELSE <<ws[j]>>],
                          1, <<>>)
    IN  SelectSeq(flat, IsImage)

countOf(x, q) == Cardinality({i \in 1..Len(q) : q[i] = x})

sameBag(q1, q2) ==
    /\ Len(q1) = Len(q2)
    /\ \A i \in 1..Len(q1) : countOf(q1[i], q1) = countOf(q1[i], q2)

\* old[i] for the indices i, in order, at which keep(i) holds
pickIndices(old, keep(_)) ==
    LET idx == SelectSeq([i \in 1..Len(old) |-> i], keep)
    IN  [j \in 1..Len(idx) |-> old[idx[j]]]

\* new is absent or a different value than the image old
differsFrom(old, new) == ~(new.t = "str" /\ new.v = old.v)

-----------------------------------------------------------------------------
(* Properties of full cleanup and of the differ (SpecHarness) *)

\* C3 -- Full cleanup completeness: for a record and a registered path
\* (single string leaf, array-of-strings leaf, array-of-objects with one or
\* more "[]" segments), full cleanup requests deletion of every image
\* string reachable at that path, none omitted and none requested twice.
FullCleanupComplete ==
    pOp = "full" => sameBag(sentCalls(pCalls), resolveAll(pOld, pPath))

\* C4 -- Single-string replacement: for a path without "[]" whose leaf is
\* a single string, the differ requests deletion of the old value exactly
\* when it is a non-empty string that differs from the new value (absent
\* or empty new value counts as different); nothing when old equals new.
SingleStringReplacement ==
    LET old == valueAt(pOld, pPath, 1)
        new == valueAt(pNew, pPath, 1)
    IN  (pOp = "diff" /\ ~includesBrackets(pPath) /\ old.t # "arr")
        => sentCalls(pCalls) =
              (IF IsImage(old) /\ differsFrom(old, new) THEN <<old>> ELSE <<>>)

SingleStringReplaced ==
    /\ pOp = "diff"
    /\ pPath = imageConfig.Service[2]
    /\ valueAt(pOld, pPath, 1) = Str(RefA)
    /\ valueAt(pNew, pPath, 1) = Str(RefB)
    /\ sentCalls(pCalls) = <<Str(RefA)>>

\* C5 -- Array positional diff: for a leaf that is a sequence of image
\* strings, the differ requests deletion of old[i] exactly when old[i] is
\* there and differs from new[i], index by index; old elements beyond the
\* length of the new sequence are requested, equal elements at the same
\* index are not.
ArrayPositionalDiff ==
    LET old == valueAt(pOld, imagesLeaf, 1)
        new == valueAt(pNew, imagesLeaf, 1)
        changed(i) == /\ IsImage(old.v[i])
                      /\ \/ new.t # "arr"
                         \/ i > Len(new.v)
                         \/ differsFrom(old.v[i], new.v[i])
    IN  (pOp = "diff" /\ pPath \in {imagesDirect, imagesLeaf} /\ old.t = "arr")
        => sentCalls(pCalls) = pickIndices(old.v, changed)

ArrayShortened ==
    /\ pOp = "diff"
    /\ pPath = imagesLeaf
    /\ valueAt(pOld, imagesLeaf, 1) = Arr(<<Str(RefA), Str(RefB)>>)
    /\ valueAt(pNew, imagesLeaf, 1) = Arr(<<Str(RefA)>>)
    /\ sentCalls(pCalls) = <<Str(RefB)>>

\* C6 -- Nested array-of-objects diff: for a path arr[].field the differ
\* pairs oldArr[i] with newArr[i] by position and requests deletion of
\* oldArr[i].field exactly when it is a non-empty string different from
\* newArr[i].field (an absent newArr[i] counts as different).
NestedArrayOfObjectsDiff ==
    LET f == FirstBracket(pPath, 1)
        prefix == SubSeq(pPath, 1, f)
        field == SubSeq(pPath, f + 1, Len(pPath))
        oldArr == valueAt(pOld, prefix, 1)
        newArr == valueAt(pNew, prefix, 1)
        oldField(i) == valueAt(oldArr.v[i], field, 1)
        newField(i) == IF newArr.t = "arr" /\ i <= Len(newArr.v)
                       THEN valueAt(newArr.v[i], field, 1) ELSE Undef
        fields == [i \in 1..Len(oldArr.v) |-> oldField(i)]
        changed(i) == IsImage(oldField(i)) /\ differsFrom(oldField(i), newField(i))
    IN  (/\ pOp = "diff"
         /\ pPath \in {imageConfig.Service[1], imageConfig.Service[3]}
         /\ oldArr.t = "arr")
        => sentCalls(pCalls) = pickIndices(fields, changed)

NestedSecondReplaced ==
    /\ pOp = "diff"
    /\ pPath = imageConfig.Service[1]
    /\ valueAt(pOld, <<Seg("contentBlocks")>>, 1)
          = Arr(<<Obj("image" :> Str(RefA)), Obj("image" :> Str(RefB))>>)
    /\ valueAt(pNew, <<Seg("contentBlocks")>>, 1)
          = Arr(<<Obj("image" :> Str(RefA)), Obj("image" :> Str(RefA))>>)
    /\ sentCalls(pCalls) = <<Str(RefB)>>

-----------------------------------------------------------------------------
(* The gateway on its own: a caller issues deleteImage calls one after the *)
(* other against a remote store the environment has filled                 *)

AssetIds == {"a", "b"}
\* "cdn/a.b.png": a last segment with more than one dot
RefDotted == << <<"cdn">>, <<"a", "b", "png">> >>

\* "img/a.png": the file name of RefA in another folder
RefOther == << <<"img">>, <<"a", "png">> >>

GatewayUrls == StringLeaves \cup {Str(RefDotted), Str(RefOther), Undef}
Nets == {"up", "reject", "throw"}

InitGateway ==
    /\ InitIdleHarness
    /\ remote \in SUBSET AssetIds
    /\ gwLog = <<>>
    /\ db = NoDocuments
    /\ services = <<>> /\ hirePages = <<>> /\ seo = <<>>
    /\ created = NoneCreated
    /\ last = NoRequest
    /\ inflight = NoneInFlight

GatewayDelete ==
    /\ Len(gwLog) < MaxCalls
    /\ \E url \in GatewayUrls, net \in Nets :
          LET r == deleteImage(url, remote, net) IN
          /\ remote' = r.store
          /\ gwLog' = Append(gwLog, [url |-> url, sent |-> r.sent, id |-> r.id,
                                     res |-> r.res, raised |-> r.raised,
                                     before |-> remote, after |-> r.store])
    /\ UNCHANGED <<pOp, pPath, inflight, pOld, pNew, pCalls, db, content, last>>

NextGateway == GatewayDelete

SpecGateway == InitGateway /\ [][NextGateway]_vars

\* C7 -- Deletion idempotence: of two gateway calls in a row with the same
\* reference, the first (answered by the remote store) removes the asset,
\* reporting ok when it was there, and the second leaves the remote store
\* as it is and is answered with not found; no call raises to its caller.
DeletionIdempotent ==
    /\ \A i \in 1..Len(gwLog) : ~gwLog[i].raised
    /\ \A i \in 1..(Len(gwLog) - 1) :
          (/\ gwLog[i].url = gwLog[i + 1].url
           /\ gwLog[i].res \in {"ok", "not found"})
          => /\ gwLog[i].id \notin gwLog[i].after
             /\ gwLog[i].id \in gwLog[i].before => gwLog[i].res = "ok"
             /\ gwLog[i + 1].after = gwLog[i + 1].before
             /\ gwLog[i + 1].res \in {"not found", "error", "caught"}

DeletedTwice ==
    /\ Len(gwLog) = 2
    /\ gwLog[1].url = Str(RefA) /\ gwLog[2].url = Str(RefA)
    /\ gwLog[1].res = "ok" /\ "a" \in gwLog[1].before /\ "a" \notin gwLog[1].after
    /\ gwLog[2].res = "not found" /\ gwLog[2].after = gwLog[2].before
    /\ ~gwLog[1].raised /\ ~gwLog[2].raised

-----------------------------------------------------------------------------
(* CRUD layer over the image-bearing collections Testimonials and          *)
(* HomeChooseIts.  A request is its cleanup middleware followed by its     *)
(* handler.  A document carries its image fields; the other fields hold no *)
(* image reference.  The client has uploaded the images a payload names    *)
(* before it sends the request.                                            *)

\* model.modelName, the name given to mongoose.model(...)
modelNameOf ==
    [Testimonials |-> "Testimonials", HomeChooseIts |-> "HomeChooseIts",
     Service |-> "Service", HirePageData |-> "HirePageData",
     SeoManager |-> "SeoManager"]

\* the asset the upload path stored for an image reference
assetOf(x) == x.v[Len(x.v)][1]

\* the assets of the images a document names under the paths of a type
assetsNamed(doc, registered) ==
    LET paths == pathsOf(registered) IN
    {assetOf(x) : x \in UNION {{resolveAll(doc, paths[i])[j] :
                                    j \in 1..Len(resolveAll(doc, paths[i]))} :
                               i \in 1..Len(paths)}}

\* cleanupImages(model): full cleanup under model.modelName
cleanupImages(record, modelName) ==
    IF ~Truthy(record) THEN [status |-> 404, calls |-> <<>>]
    ELSE [status |-> 0, calls |-> deleteImagesByConfig(record, modelName)]

\* cleanupOldImages(model, modelName): differential cleanup against req.body
cleanupOldImages(record, newData, modelName) ==
    IF ~Truthy(record) THEN [status |-> 404, calls |-> <<>>]
    ELSE [status |-> 0, calls |-> compareByConfig(record, newData, modelName)]

\* no cleanup middleware is mounted
NoCleanup == [status |-> 0, calls |-> <<>>, attempts |-> <<>>, store |-> {}]

\* the cleanup middleware m against the storage service: it answers 404 for
\* a missing record, 500 when a deletion raises into its catch, and calls
\* next() otherwise (status 0); before is the remote store without the
\* uploads that came with the request
through(m, before, store, nets) ==
    LET attempts == attemptEach(m.calls, 1, store, nets) IN
    IF m.status # 0
    THEN [status |-> m.status, calls |-> <<>>, attempts |-> <<>>, store |-> before]
    ELSE [status |-> IF \E k \in 1..Len(attempts) : attempts[k].raised
                     THEN 500 ELSE 0,
          calls |-> m.calls, attempts |-> attempts,
          store |-> deleteEach(m.calls, 1, store, nets)]

\* body.key, undefined when the payload omits it
field(body, key) ==
    IF body.t = "obj" /\ key \in DOMAIN body.v THEN body.v[key] ELSE Undef

\* doc.key = value; doc.save()  (assigning undefined unsets the field)
assignField(doc, key, value) ==
    IF value = Undef
    THEN Obj([k \in DOMAIN doc.v \ {key} |-> doc.v[k]])
    ELSE Obj([k \in DOMAIN doc.v \cup {key} |-> IF k = key THEN value ELSE doc.v[k]])

\* an update that stores nothing
findByIdAndKeep(doc, update) == doc

\* Model.findByIdAndUpdate(id, update): the keys of update are set
findByIdAndUpdate(doc, update) ==
    Obj([k \in DOMAIN doc.v \cup DOMAIN update.v |->
            IF k \in DOMAIN update.v THEN update.v[k] ELSE doc.v[k]])

Completed(route, kind, registered, status, old, body, mw, stored) ==
    [route |-> route, kind |-> kind, registered |-> registered, status |-> status,
     old |-> old, body |-> body, calls |-> mw.calls, stored |-> stored,
     seoBefore |-> seo, sync |-> NoSync, slug |-> "", attempts |-> mw.attempts,
     stage |-> IF mw.status # 0 THEN "middleware" ELSE "handler", thrown |-> {}]

ImageBodies == {Obj("image" :> x) : x \in StringLeaves} \cup {EmptyObj}
NetAnswers == [AssetIds -> Nets]

InitImages ==
    /\ InitIdleHarness
    /\ remote = {}
    /\ gwLog = <<>>
    /\ db = NoDocuments
    /\ services = <<>> /\ hirePages = <<>> /\ seo = <<>>
    /\ created = NoneCreated
    /\ last = NoRequest
    /\ inflight = NoneInFlight

\* POST /api/testimonials
TestimonialsPost ==
    /\ db.Testimonials = Undef
    /\ \E body \in ImageBodies :
          LET image == field(body, "image")
              doc == Obj("image" :> (IF Truthy(image) THEN image ELSE Str(EmptyString)))
          IN  /\ db' = [db EXCEPT !.Testimonials = doc]
              /\ remote' = remote \cup assetsNamed(body, "Testimonial")
              /\ last' = Completed("POST /api/testimonials", "create", "Testimonial",
                                   201, Undef, body, NoCleanup, doc)
    /\ UNCHANGED <<pOp, pPath, inflight, pOld, pNew, pCalls, gwLog, content>>

\* PUT /api/testimonials/:id
TestimonialsPut ==
    /\ \E body \in ImageBodies, nets \in NetAnswers :
          LET record == db.Testimonials
              mw == through(cleanupOldImages(record, body, "Testimonial"),
                             remote, remote \cup assetsNamed(body, "Testimonial"), nets)
              doc == assignField(record, "image", field(body, "image"))
          IN  IF mw.status # 0
              THEN /\ last' = Completed("PUT /api/testimonials/:id", "update",
                                        "Testimonial", mw.status, record, body, mw, record)
                   /\ remote' = mw.store /\ UNCHANGED <<db>>
              ELSE /\ db' = [db EXCEPT !.Testimonials = doc]
                   /\ remote' = mw.store
                   /\ last' = Completed("PUT /api/testimonials/:id", "update",
                                        "Testimonial", 200, record, body, mw, doc)
    /\ UNCHANGED <<pOp, pPath, inflight, pOld, pNew, pCalls, gwLog, content>>

\* DELETE /api/testimonials/:id
TestimonialsDelete ==
    /\ \E nets \in NetAnswers :
          LET record == db.Testimonials
              mw == through(cleanupImages(record, modelNameOf.Testimonials),
                             remote, remote, nets)
          IN  IF mw.status # 0
              THEN /\ last' = Completed("DELETE /api/testimonials/:id", "delete",
                                        "Testimonial", mw.status, record, Undef, mw, record)
                   /\ remote' = mw.store /\ UNCHANGED <<db>>
              ELSE /\ db' = [db EXCEPT !.Testimonials = Undef]
                   /\ remote' = mw.store
                   /\ last' = Completed("DELETE /api/testimonials/:id", "delete",
                                        "Testimonial", 200, record, Undef, mw, Undef)
    /\ UNCHANGED <<pOp, pPath, inflight, pOld, pNew, pCalls, gwLog, content>>

\* POST /api/choose_its_home
HomeChooseItsPost ==
    /\ db.HomeChooseIts = Undef
    /\ \E body \in ImageBodies :
          LET image == field(body, "image")
              doc == Obj("image" :> (IF image = Undef THEN Null ELSE image))
          IN  /\ db' = [db EXCEPT !.HomeChooseIts = doc]
              /\ remote' = remote \cup assetsNamed(body, "HomeChooseIts")
              /\ last' = Completed("POST /api/choose_its_home", "create",
                                   "HomeChooseIts", 201, Undef, body, NoCleanup, doc)
    /\ UNCHANGED <<pOp, pPath, inflight, pOld, pNew, pCalls, gwLog, content>>

\* PUT /api/choose_its_home/:id
HomeChooseItsPut ==
    /\ \E body \in ImageBodies, nets \in NetAnswers :
          LET record == db.HomeChooseIts
              mw == through(cleanupOldImages(record, body, "HomeChooseIts"),
                             remote, remote \cup assetsNamed(body, "HomeChooseIts"), nets)
              doc == findByIdAndUpdate(record, body)
          IN  IF mw.status # 0
              THEN /\ last' = Completed("PUT /api/choose_its_home/:id", "update",
                                        "HomeChooseIts", mw.status, record, body, mw, record)
                   /\ remote' = mw.store /\ UNCHANGED <<db>>
              ELSE /\ db' = [db EXCEPT !.HomeChooseIts = doc]
                   /\ remote' = mw.store
                   /\ last' = Completed("PUT /api/choose_its_home/:id", "update",
                                        "HomeChooseIts", 200, record, body, mw, doc)
    /\ UNCHANGED <<pOp, pPath, inflight, pOld, pNew, pCalls, gwLog, content>>

\* DELETE /api/choose_its_home/:id
HomeChooseItsDelete ==
    /\ \E nets \in NetAnswers :
          LET record == db.HomeChooseIts
              mw == through(cleanupImages(record, modelNameOf.HomeChooseIts),
                             remote, remote, nets)
          IN  IF mw.status # 0
              THEN /\ last' = Completed("DELETE /api/choose_its_home/:id", "delete",
                                        "HomeChooseIts", mw.status, record, Undef, mw, record)
                   /\ remote' = mw.store /\ UNCHANGED <<db>>
              ELSE /\ db' = [db EXCEPT !.HomeChooseIts = Undef]
                   /\ remote' = mw.store
                   /\ last' = Completed("DELETE /api/choose_its_home/:id", "delete",
                                        "HomeChooseIts", 200, record, Undef, mw, Undef)
    /\ UNCHANGED <<pOp, pPath, inflight, pOld, pNew, pCalls, gwLog, content>>

NextImages ==
    \/ TestimonialsPost \/ TestimonialsPut \/ TestimonialsDelete
    \/ HomeChooseItsPost \/ HomeChooseItsPut \/ HomeChooseItsDelete

SpecImages == InitImages /\ [][NextImages]_vars

\* the image strings a document holds at the paths registered for a type
imagesHeld(doc, registered) ==
    LET paths == pathsOf(registered) IN
    UNION {{resolveAll(doc, paths[i])[j] : j \in 1..Len(resolveAll(doc, paths[i]))} :
           i \in 1..Len(paths)}

\* the references the last request sent to the gateway
sentByLast == {sentCalls(last.calls)[j] : j \in 1..Len(sentCalls(last.calls))}

\* C1 -- No premature deletion: after an update request on a record of a
\* registered type has completed (cleanup middleware, then the persist
\* step), no image reference the stored record still holds at a registered
\* path has been sent to the gateway by that request.
NoPrematureDeletion ==
    (last.kind = "update" /\ last.status = 200)
    => imagesHeld(last.stored, last.registered) \cap sentByLast = {}

\* C2 -- No orphaned remote assets on delete: when a delete request has
\* removed a record of a registered type, every image string reachable at
\* the type's registered paths in the stored record has been requested for
\* deletion.
NoOrphansOnDelete ==
    (last.kind = "delete" /\ last.status = 200)
    => imagesHeld(last.old, last.registered) \subseteq sentByLast

-----------------------------------------------------------------------------
(* SEO metadata collection (seo-manager schema) and the synchronizer       *)
(* (utils/seoSync.js).  Titles and slugs are plain strings, "" when empty; *)
(* a text built from a template is the sequence of its pieces.             *)

\* the documents of a collection
documents(coll) == {coll[i] : i \in 1..Len(coll)}

\* index of the first document of coll, from position i on, that is among
\* the matching ones, 0 when none is
RECURSIVE firstFrom(_, _, _)
firstFrom(coll, matching, i) ==
    IF i > Len(coll) THEN 0
    ELSE IF coll[i] \in matching THEN i ELSE firstFrom(coll, matching, i + 1)

\* Model.findOne(filter), matching being the documents the filter selects
findOne(coll, matching) == firstFrom(coll, matching, 1)

\* coll without its i-th document
removeAt(coll, i) == SubSeq(coll, 1, i - 1) \o SubSeq(coll, i + 1, Len(coll))

\* doc.save() on a collection without the unique index on slug
saveSeoUnindexed(coll, i, doc) ==
    IF doc.title = "" \/ doc.slug = ""
    THEN [threw |-> TRUE, seo |-> coll]
    ELSE [threw |-> FALSE,
          seo |-> IF i > Len(coll) THEN Append(coll, doc)
                  ELSE [coll EXCEPT ![i] = doc]]

\* doc.save() of a SeoManager document at position i (Len + 1: a new one):
\* title and slug are required and the slug index is unique
saveSeo(coll, i, doc) ==
    IF \/ doc.title = "" \/ doc.slug = ""
       \/ \E j \in 1..Len(coll) : j # i /\ coll[j].slug = doc.slug
    THEN [threw |-> TRUE, seo |-> coll]
    ELSE [threw |-> FALSE,
          seo |-> IF i > Len(coll) THEN Append(coll, doc)
                  ELSE [coll EXCEPT ![i] = doc]]

linkFieldMap == [service |-> "linkedService", hire |-> "linkedHirePage"]

\* the meta_description template of Case 3
describe(seoTitle) ==
    <<"Learn more about ", seoTitle, " - professional services and solutions">>

\* Case 1 without handing the entry over to the synchronizer
claimIndependentUnmanaged(existingSeo, seoTitle, slug, linkField, type, linkedId) ==
    [existingSeo EXCEPT !.title = seoTitle, !.slug = slug, !.seo_title = seoTitle,
                        ![linkField] = linkedId, !.linkedType = type]

\* Case 1: convert an independent SEO entry to auto-managed
claimIndependent(existingSeo, seoTitle, slug, linkField, type, linkedId) ==
    [existingSeo EXCEPT !.title = seoTitle, !.slug = slug, !.seo_title = seoTitle,
                        ![linkField] = linkedId, !.linkedType = type,
                        !.isAutoManaged = TRUE]

\* Case 2 that moves the previous title into the keyphrase
updateManagedShifting(existingSeo, seoTitle, slug, linkField, type, linkedId) ==
    [existingSeo EXCEPT !.title = seoTitle, !.slug = slug,
                        !.seo_keyphrase = existingSeo.title,
                        ![linkField] = linkedId, !.linkedType = type,
                        !.isAutoManaged = TRUE]

\* Case 2: normal update of an auto-managed entry
updateManaged(existingSeo, seoTitle, slug, linkField, type, linkedId) ==
    [existingSeo EXCEPT !.title = seoTitle, !.slug = slug,
                        ![linkField] = linkedId, !.linkedType = type,
                        !.isAutoManaged = TRUE]

\* a document with the defaults of the schema
seoDefaults(id) ==
    [id |-> id, title |-> "", slug |-> "", seo_keyphrase |-> "",
     seo_title |-> "", meta_description |-> <<"">>,
     cover_image |-> Str(EmptyString), linkedService |-> NoId,
     linkedHirePage |-> NoId, linkedType |-> "independent",
     isAutoManaged |-> FALSE]

\* Case 3 with the keyphrase as the title of the new entry
newManagedUntitled(id, seoTitle, slug, linkField, type, linkedId) ==
    [seoDefaults(id) EXCEPT !.title = seoTitle, !.slug = slug,
                            !.seo_keyphrase = seoTitle, !.seo_title = "",
                            !.meta_description = describe(seoTitle),
                            ![linkField] = linkedId, !.linkedType = type,
                            !.isAutoManaged = TRUE]

\* Case 3: a brand new auto-managed entry
newManaged(id, seoTitle, slug, linkField, type, linkedId) ==
    [seoDefaults(id) EXCEPT !.title = seoTitle, !.slug = slug,
                            !.seo_keyphrase = seoTitle, !.seo_title = seoTitle,
                            !.meta_description = describe(seoTitle),
                            ![linkField] = linkedId, !.linkedType = type,
                            !.isAutoManaged = TRUE]

\* the two lookups in the other order: by slug, then by linked id
lookupSlugFirst(coll, linkField, linkedId, slug) ==
    LET bySlug == findOne(coll, {d \in documents(coll) : d.slug = slug})
    IN  IF bySlug # 0 THEN bySlug
        ELSE IF linkedId # NoId
        THEN findOne(coll, {d \in documents(coll) : d[linkField] = linkedId})
        ELSE 0

\* existingSeo of syncSeoData: by linked id first, by slug when not found
lookupExisting(coll, linkField, linkedId, slug) ==
    LET byLink == IF linkedId # NoId
                  THEN findOne(coll, {d \in documents(coll) : d[linkField] = linkedId})
                  ELSE 0
    IN  IF byLink # 0 THEN byLink
        ELSE findOne(coll, {d \in documents(coll) : d.slug = slug})

\* syncSeoData(subCategory, slug, title, type, linkedId) on the collection
\* coll; freshId is the _id a new document gets
syncSeoData(coll, subCategory, slug, title, type, linkedId, freshId) ==
    LET seoTitle == IF subCategory # "" THEN subCategory ELSE title IN
    IF type \notin DOMAIN linkFieldMap THEN [threw |-> TRUE, seo |-> coll]
    ELSE
    LET linkField == linkFieldMap[type]
        found == lookupExisting(coll, linkField, linkedId, slug)
    IN  IF found # 0
        THEN LET existingSeo == coll[found] IN
             IF ~existingSeo.isAutoManaged /\ existingSeo.linkedType = "independent"
             THEN saveSeo(coll, found,
                          claimIndependent(existingSeo, seoTitle, slug, linkField,
                                           type, linkedId))
             ELSE IF existingSeo.isAutoManaged \/ existingSeo.linkedType = type
             THEN saveSeo(coll, found,
                          updateManaged(existingSeo, seoTitle, slug, linkField,
                                        type, linkedId))
             ELSE [threw |-> FALSE, seo |-> coll]
        ELSE saveSeo(coll, Len(coll) + 1,
                     newManaged(freshId, seoTitle, slug, linkField, type, linkedId))

\* syncSeoData against a storage layer that may reject its first query:
\* the rejection lands in the catch and is thrown again
synchronize(fault, coll, subCategory, slug, title, type, linkedId, freshId) ==
    LET r == syncSeoData(coll, subCategory, slug, title, type, linkedId, freshId)
    IN  IF fault THEN [threw |-> TRUE, seo |-> coll, fault |-> TRUE]
        ELSE [threw |-> r.threw, seo |-> r.seo, fault |-> FALSE]

\* safeDeleteSeoData that deletes whatever carries the slug
safeDeleteAnything(coll, slug) ==
    LET i == findOne(coll, {d \in documents(coll) : d.slug = slug}) IN
    IF i # 0 THEN [deleted |-> TRUE, seo |-> removeAt(coll, i)]
    ELSE [deleted |-> TRUE, seo |-> coll]

\* safeDeleteSeoData(slug): deleted = FALSE is the "blocked" result
safeDeleteSeoData(coll, slug) ==
    LET i == findOne(coll, {d \in documents(coll) : d.slug = slug}) IN
    IF i # 0 /\ ~coll[i].isAutoManaged
    THEN [deleted |-> TRUE, seo |-> removeAt(coll, i)]
    ELSE IF i # 0 /\ coll[i].isAutoManaged
    THEN [deleted |-> FALSE, seo |-> coll]
    ELSE [deleted |-> TRUE, seo |-> coll]

\* forceDeleteSeoData(slug)
forceDeleteSeoData(coll, slug) ==
    LET i == findOne(coll, {d \in documents(coll) : d.slug = slug}) IN
    IF i # 0 THEN removeAt(coll, i) ELSE coll

\* Model.findByIdAndUpdate(id, patch) on a content collection whose slug
\* index is unique
patchContent(coll, id, newSlug, withTitle, newTitle) ==
    IF \E j \in 1..Len(coll) : coll[j].id # id /\ coll[j].slug = newSlug
                               /\ \E k \in 1..Len(coll) : coll[k].id = id
    THEN coll
    ELSE [j \in 1..Len(coll) |->
            IF coll[j].id # id THEN coll[j]
            ELSE IF withTitle
            THEN [coll[j] EXCEPT !.slug = newSlug, !.subCategory = newTitle]
            ELSE [coll[j] EXCEPT !.slug = newSlug]]

\* updateLinkedEntity(seoSlug, newSlug, newTitle): the content collections
\* after the reverse sync
updateLinkedEntity(coll, svc, hire, seoSlug, newSlug, newTitle) ==
    LET i == findOne(coll, {d \in documents(coll) : d.slug = seoSlug}) IN
    IF i = 0 THEN [services |-> svc, hirePages |-> hire]
    ELSE LET seoEntry == coll[i] IN
         IF ~seoEntry.isAutoManaged \/ seoEntry.linkedType = "independent"
         THEN [services |-> svc, hirePages |-> hire]
         ELSE IF seoEntry.linkedService # NoId
         THEN [services |-> patchContent(svc, seoEntry.linkedService, newSlug,
                                         seoEntry.linkedType = "service", newTitle),
               hirePages |-> hire]
         ELSE IF seoEntry.linkedHirePage # NoId
         THEN [services |-> svc,
               hirePages |-> patchContent(hire, seoEntry.linkedHirePage, newSlug,
                                          seoEntry.linkedType = "hire", newTitle)]
         ELSE [services |-> svc, hirePages |-> hire]

-----------------------------------------------------------------------------
(* Services, hire pages and the SEO admin surface: the routes that call    *)
(* the synchronizer.  A content document is kept as its plain fields and   *)
(* doc, the part of it the image registry looks into.                      *)

MaxServices == 1
MaxHires == 1
MaxSeo == 2
MaxRequests == 3

Slugs == {"a", "b"}
SlugInputs == Slugs \cup {""}
Titles == {"T1", "T2"}

serviceDoc(r) == Obj("WhyWorkWithThis" :> Obj("image" :> Str(r)))
hireDoc(r, q) ==
    Obj([k \in {"successSpeacks", "hireDadiated", "unloackPower"} |->
            Obj("image" :> Str(IF k = "successSpeacks" THEN r ELSE q))])
seoDoc(d) == Obj("cover_image" :> d.cover_image)

ServiceBodies ==
    [slug : SlugInputs, subCategory : Titles, mainTitle : {"M"},
     doc : {serviceDoc(RefA)}]
HireBodies ==
    [slug : Slugs, subCategory : Titles, title : {"M"},
     doc : {hireDoc(RefA, RefB)}]
SeoBodies ==
    [title : {"", "T1"}, slug : SlugInputs,
     cover_image : {Undef, Str(RefA)}]
SeoUpdates ==
    [title : {"", "T2"}, slug : SlugInputs, cover_image : {Undef}]

\* Model.findById(id): position in the collection, 0 when there is none
\* the storage service answers every request of these routes; its failures
\* are the subject of the gateway and the middleware specifications
SyncNetAnswers == {[x \in AssetIds |-> "up"]}

findById(coll, id) == findOne(coll, {d \in documents(coll) : d.id = id})

\* the record the cleanup middleware loads, null when there is none
loaded(coll, i) == IF i = 0 THEN Null ELSE coll[i]

\* the image-bearing parts of the documents of a collection
docsOf(coll) == [j \in 1..Len(coll) |-> coll[j].doc]
seoDocs(coll) == [j \in 1..Len(coll) |-> seoDoc(coll[j])]

synced(subCategory, slug, title, type, linkedId, result) ==
    [called |-> TRUE, subCategory |-> subCategory, slug |-> slug,
     title |-> title, type |-> type, linkedId |-> linkedId,
     threw |-> result.threw, fault |-> result.fault]

Responded(route, kind, registered, status, old, body, mw, stored, sync) ==
    [route |-> route, kind |-> kind, registered |-> registered, status |-> status,
     old |-> old, body |-> body, calls |-> mw.calls, stored |-> stored,
     seoBefore |-> seo, sync |-> sync, slug |-> "", attempts |-> mw.attempts,
     stage |-> IF mw.status # 0 THEN "middleware" ELSE "handler",
     thrown |-> IF sync.threw THEN {"syncSeoData"} ELSE {}]

nextSeoId == ObjectId("SeoManager", created.seo + 1)

\* the block without its catch: what the synchronizer throws leaves it
escapesUncaught(threw) == threw

\* try { await syncSeoData(..) } catch (seoError) { console.warn(..) }:
\* whether an error thrown inside the block leaves it
escapes(threw) == FALSE

\* the status of a handler: an error that leaves the block lands in the
\* handler's own catch, which answers 500
answered(status, threw) == IF escapes(threw) THEN 500 ELSE status

\* the counters after a request that left the SEO collection as coll
served == [created EXCEPT !.requests = @ + 1]

\* the counters after a request that left the SEO collection as coll
counted(coll) ==
    IF \E i \in 1..Len(coll) : coll[i].id = nextSeoId
    THEN [served EXCEPT !.seo = @ + 1] ELSE served

Init ==
    /\ InitIdleHarness
    /\ remote = {}
    /\ gwLog = <<>>
    /\ db = NoDocuments
    /\ services = <<>> /\ hirePages = <<>> /\ seo = <<>>
    /\ created = NoneCreated
    /\ last = NoRequest
    /\ inflight = NoneInFlight

\* POST /api/service
ServicePost ==
    /\ created.requests < MaxRequests
    /\ created.services < MaxServices
    /\ \E body \in ServiceBodies, fault \in BOOLEAN :
          LET slugExists == findOne(services, {d \in documents(services) : d.slug = body.slug})
              checkService ==
                  findOne(services, {d \in documents(services) : d.subCategory = body.subCategory})
              id == ObjectId("Service", created.services + 1)
              result == [id |-> id, slug |-> body.slug,
                         subCategory |-> body.subCategory,
                         title |-> body.mainTitle, doc |-> body.doc]
              sync == synchronize(fault, seo, body.subCategory, body.slug, body.mainTitle,
                                  "service", id, nextSeoId)
          IN  IF body.slug = "" \/ slugExists # 0 \/ checkService # 0
              THEN /\ last' = Responded("POST /api/service", "create", "Service",
                                        400, Undef, body, NoCleanup, Undef, NoSync)
                   /\ created' = served /\ UNCHANGED <<services, seo, remote>>
              ELSE /\ services' = Append(services, result)
                   /\ seo' = sync.seo
                   /\ created' = [counted(sync.seo) EXCEPT !.services = @ + 1]
                   /\ remote' = remote \cup assetsNamed(body.doc, "Service")
                   /\ last' = Responded("POST /api/service", "create", "Service",
                                  answered(201, sync.threw), Undef, body,
                                  NoCleanup, result,
                                  synced(body.subCategory, body.slug, body.mainTitle,
                                         "service", id, sync))
    /\ UNCHANGED <<pOp, pPath, inflight, pOld, pNew, pCalls, gwLog, db, hirePages>>

\* PUT /api/service/:id
ServicePut ==
    /\ created.requests < MaxRequests
    /\ \E n \in 1..MaxServices, body \in ServiceBodies, nets \in SyncNetAnswers,
          fault \in BOOLEAN :
          LET id == ObjectId("Service", n)
              i == findById(services, id)
              uploaded == remote \cup assetsNamed(body.doc, "Service")
              mw == through(cleanupImages(loaded(docsOf(services), i), "Service"),
                             remote, uploaded, nets)
          IN  IF mw.status # 0
              THEN /\ last' = Responded("PUT /api/service/:id", "update", "Service",
                                        mw.status, Undef, body, mw, Undef, NoSync)
                   /\ created' = served /\ remote' = mw.store /\ UNCHANGED <<services, seo>>
              ELSE
              LET currentService == services[i]
                  existingService ==
                      findOne(services, {d \in documents(services) : d.slug = body.slug /\ d.id # id})
                  updatedService ==
                      [currentService EXCEPT
                          !.slug = body.slug, !.subCategory = body.subCategory,
                          !.title = body.mainTitle,
                          !.doc = findByIdAndUpdate(currentService.doc, body.doc)]
                  sync == synchronize(fault, seo, updatedService.subCategory,
                                      updatedService.slug, updatedService.title,
                                      "service", id, nextSeoId)
              IN  /\ remote' = mw.store
                  /\ IF \/ body.slug # "" /\ body.slug # currentService.slug
                           /\ existingService # 0
                        \/ body.subCategory = "" \/ body.slug = ""
                        \/ body.mainTitle = ""
                     THEN /\ last' = Responded("PUT /api/service/:id", "update",
                                         "Service", 400, currentService, body,
                                         mw, currentService, NoSync)
                          /\ created' = served /\ UNCHANGED <<services, seo>>
                     ELSE IF currentService.slug # updatedService.slug
                             \/ currentService.subCategory # updatedService.subCategory
                     THEN /\ services' = [services EXCEPT ![i] = updatedService]
                          /\ seo' = sync.seo
                          /\ created' = counted(sync.seo)
                          /\ last' = Responded("PUT /api/service/:id", "update",
                                         "Service", answered(200, sync.threw),
                                         currentService, body, mw, updatedService,
                                         synced(updatedService.subCategory,
                                                updatedService.slug,
                                                updatedService.title, "service",
                                                id, sync))
                     ELSE /\ services' = [services EXCEPT ![i] = updatedService]
                          /\ last' = Responded("PUT /api/service/:id", "update",
                                         "Service", 200, currentService, body,
                                         mw, updatedService, NoSync)
                          /\ created' = served /\ UNCHANGED <<seo>>
    /\ UNCHANGED <<pOp, pPath, inflight, pOld, pNew, pCalls, gwLog, db, hirePages>>

\* DELETE /api/service/:id
ServiceDelete ==
    /\ created.requests < MaxRequests
    /\ \E n \in 1..MaxServices, nets \in SyncNetAnswers, fault \in BOOLEAN :
          LET id == ObjectId("Service", n)
              i == findById(services, id)
              mw == through(cleanupImages(loaded(docsOf(services), i), modelNameOf.Service),
                             remote, remote, nets)
          IN  IF mw.status # 0
              THEN /\ last' = Responded("DELETE /api/service/:id", "delete",
                                        "Service", mw.status, Undef, Undef, mw, Undef,
                                        NoSync)
                   /\ remote' = mw.store /\ UNCHANGED <<services, seo>>
              ELSE /\ remote' = mw.store
                   /\ seo' = IF fault THEN seo ELSE forceDeleteSeoData(seo, services[i].slug)
                   /\ services' = IF escapes(fault) THEN services
                                  ELSE removeAt(services, i)
                   /\ last' = [Responded("DELETE /api/service/:id", "delete",
                                         "Service", answered(200, fault), services[i], Undef,
                                         mw, Undef, NoSync)
                               EXCEPT !.slug = services[i].slug,
                                      !.thrown = IF fault THEN {"forceDeleteSeoData"}
                                                 ELSE {}]
    /\ created' = served /\ UNCHANGED <<pOp, pPath, inflight, pOld, pNew, pCalls, gwLog, db, hirePages>>

\* POST /api/hire-page
HirePost ==
    /\ created.requests < MaxRequests
    /\ created.hirePages < MaxHires
    /\ \E body \in HireBodies, fault \in BOOLEAN :
          LET slugExists == findOne(hirePages, {d \in documents(hirePages) : d.slug = body.slug})
              categoryExists ==
                  findOne(hirePages, {d \in documents(hirePages) : d.subCategory = body.subCategory})
              id == ObjectId("HirePageData", created.hirePages + 1)
              saved == [id |-> id, slug |-> body.slug,
                        subCategory |-> body.subCategory,
                        title |-> body.title, doc |-> body.doc]
              sync == synchronize(fault, seo, body.subCategory, body.slug, body.title,
                                  "hire", id, nextSeoId)
          IN  IF \/ body.subCategory = "" \/ body.title = "" \/ body.slug = ""
                 \/ slugExists # 0 \/ categoryExists # 0
              THEN /\ last' = Responded("POST /api/hire-page", "create",
                                        "HirePageData", 400, Undef, body, NoCleanup,
                                        Undef, NoSync)
                   /\ created' = served /\ UNCHANGED <<hirePages, seo, remote>>
              ELSE /\ hirePages' = Append(hirePages, saved)
                   /\ seo' = sync.seo
                   /\ created' = [counted(sync.seo) EXCEPT !.hirePages = @ + 1]
                   /\ remote' = remote \cup assetsNamed(body.doc, "HirePageData")
                   /\ last' = Responded("POST /api/hire-page", "create",
                                  "HirePageData", answered(201, sync.threw), Undef, body,
                                  NoCleanup, saved,
                                  synced(body.subCategory, body.slug, body.title,
                                         "hire", id, sync))
    /\ UNCHANGED <<pOp, pPath, inflight, pOld, pNew, pCalls, gwLog, db, services>>

\* PUT /api/hire-page/:id
HirePut ==
    /\ created.requests < MaxRequests
    /\ \E n \in 1..MaxHires, body \in HireBodies, nets \in SyncNetAnswers,
          fault \in BOOLEAN :
          LET id == ObjectId("HirePageData", n)
              i == findById(hirePages, id)
              uploaded == remote \cup assetsNamed(body.doc, "HirePageData")
              mw == through(cleanupOldImages(loaded(docsOf(hirePages), i), body.doc,
                                     "HirePageData"),
                             remote, uploaded, nets)
          IN  IF mw.status # 0
              THEN /\ last' = Responded("PUT /api/hire-page/:id", "update",
                                        "HirePageData", mw.status, Undef, body, mw,
                                        Undef, NoSync)
                   /\ created' = served /\ remote' = mw.store /\ UNCHANGED <<hirePages, seo>>
              ELSE
              LET data == hirePages[i]
                  slugExists ==
                      findOne(hirePages, {d \in documents(hirePages) : d.slug = body.slug /\ d.id # id})
                  updated ==
                      [data EXCEPT
                          !.slug = body.slug, !.subCategory = body.subCategory,
                          !.title = body.title,
                          !.doc = findByIdAndUpdate(data.doc, body.doc)]
                  sync == synchronize(fault, seo, updated.subCategory, updated.slug,
                                      updated.title, "hire", id, nextSeoId)
              IN  /\ remote' = mw.store
                  /\ IF \/ body.subCategory = "" \/ body.title = ""
                        \/ body.slug = "" \/ slugExists # 0
                     THEN /\ last' = Responded("PUT /api/hire-page/:id", "update",
                                         "HirePageData", 400, data, body, mw,
                                         data, NoSync)
                          /\ created' = served /\ UNCHANGED <<hirePages, seo>>
                     ELSE IF data.slug # updated.slug
                             \/ data.subCategory # updated.subCategory
                     THEN /\ hirePages' = [hirePages EXCEPT ![i] = updated]
                          /\ seo' = sync.seo
                          /\ created' = counted(sync.seo)
                          /\ last' = Responded("PUT /api/hire-page/:id", "update",
                                         "HirePageData", answered(200, sync.threw),
                                         data, body, mw, updated,
                                         synced(updated.subCategory, updated.slug,
                                                updated.title, "hire", id, sync))
                     ELSE /\ hirePages' = [hirePages EXCEPT ![i] = updated]
                          /\ last' = Responded("PUT /api/hire-page/:id", "update",
                                         "HirePageData", 200, data, body, mw,
                                         updated, NoSync)
                          /\ created' = served /\ UNCHANGED <<seo>>
    /\ UNCHANGED <<pOp, pPath, inflight, pOld, pNew, pCalls, gwLog, db, services>>

\* DELETE /api/hire-page/:id
HireDelete ==
    /\ created.requests < MaxRequests
    /\ \E n \in 1..MaxHires, nets \in SyncNetAnswers, fault \in BOOLEAN :
          LET id == ObjectId("HirePageData", n)
              i == findById(hirePages, id)
              mw == through(cleanupImages(loaded(docsOf(hirePages), i),
                                  modelNameOf.HirePageData),
                             remote, remote, nets)
          IN  IF mw.status # 0
              THEN /\ last' = Responded("DELETE /api/hire-page/:id", "delete",
                                        "HirePageData", mw.status, Undef, Undef, mw,
                                        Undef, NoSync)
                   /\ remote' = mw.store /\ UNCHANGED <<hirePages, seo>>
              ELSE /\ remote' = mw.store
                   /\ seo' = IF fault THEN seo ELSE forceDeleteSeoData(seo, hirePages[i].slug)
                   /\ hirePages' = IF escapes(fault) THEN hirePages
                                   ELSE removeAt(hirePages, i)
                   /\ last' = [Responded("DELETE /api/hire-page/:id", "delete",
                                         "HirePageData", answered(200, fault), hirePages[i],
                                         Undef,
                                         mw, Undef, NoSync)
                               EXCEPT !.slug = hirePages[i].slug,
                                      !.thrown = IF fault THEN {"forceDeleteSeoData"}
                                                 ELSE {}]
    /\ created' = served /\ UNCHANGED <<pOp, pPath, inflight, pOld, pNew, pCalls, gwLog, db, services>>

\* a || b on strings
orElse(a, b) == IF a # "" THEN a ELSE b

\* POST /api/seo-manager
SeoPost ==
    /\ created.requests < MaxRequests
    /\ created.seo < MaxSeo
    /\ \E body \in SeoBodies :
          LET existingSeo == findOne(seo, {d \in documents(seo) : d.slug = body.slug})
              seoManager ==
                  [seoDefaults(nextSeoId) EXCEPT
                      !.title = body.title, !.slug = body.slug,
                      !.cover_image = IF body.cover_image = Undef
                                      THEN Str(EmptyString) ELSE body.cover_image]
              saved == saveSeo(seo, Len(seo) + 1, seoManager)
          IN  IF existingSeo # 0
              THEN /\ last' = Responded("POST /api/seo-manager", "create",
                                        "SeoManager", 400, Undef, body, NoCleanup, Undef,
                                        NoSync)
                   /\ created' = served /\ UNCHANGED <<seo, remote>>
              ELSE IF saved.threw
              THEN /\ last' = Responded("POST /api/seo-manager", "create",
                                        "SeoManager", 500, Undef, body, NoCleanup, Undef,
                                        NoSync)
                   /\ created' = served /\ UNCHANGED <<seo, remote>>
              ELSE /\ seo' = saved.seo
                   /\ created' = counted(saved.seo)
                   /\ remote' = remote \cup
                                  assetsNamed(seoDoc(seoManager), "SeoManager")
                   /\ last' = Responded("POST /api/seo-manager", "create",
                                        "SeoManager", 201, Undef, body, NoCleanup,
                                        seoManager, NoSync)
    /\ UNCHANGED <<pOp, pPath, inflight, pOld, pNew, pCalls, gwLog, db, services, hirePages>>

\* PUT /api/seo-manager/:id
SeoPut ==
    /\ created.requests < MaxRequests
    /\ \E n \in 1..(created.seo + 1), body \in SeoUpdates,
          nets \in SyncNetAnswers :
          LET id == ObjectId("SeoManager", n)
              i == findById(seo, id)
              reqBody == IF body.cover_image = Undef THEN EmptyObj
                         ELSE Obj("cover_image" :> body.cover_image)
              uploaded == remote \cup assetsNamed(reqBody, "SeoManager")
              mw == through(cleanupOldImages(loaded(seoDocs(seo), i), reqBody, "SeoManager"),
                             remote, uploaded, nets)
          IN  IF mw.status # 0
              THEN /\ last' = Responded("PUT /api/seo-manager/:id", "update",
                                        "SeoManager", mw.status, Undef, body, mw, Undef,
                                        NoSync)
                   /\ remote' = mw.store /\ UNCHANGED <<seo, services, hirePages>>
              ELSE
              LET old == seo[i]
                  existingSeo ==
                      findOne(seo, {d \in documents(seo) : d.slug = body.slug /\ d.id # id})
                  seoData ==
                      [old EXCEPT
                          !.title = orElse(body.title, old.title),
                          !.slug = orElse(body.slug, old.slug),
                          !.cover_image = IF Truthy(body.cover_image)
                                          THEN body.cover_image ELSE old.cover_image]
                  saved == saveSeo(seo, i, seoData)
                  linked == updateLinkedEntity(saved.seo, services, hirePages,
                                               old.slug, seoData.slug, seoData.title)
              IN  /\ remote' = mw.store
                  /\ IF body.slug # "" /\ body.slug # old.slug /\ existingSeo # 0
                     THEN /\ last' = Responded("PUT /api/seo-manager/:id", "update",
                                         "SeoManager", 400, old, body, mw, old,
                                         NoSync)
                          /\ UNCHANGED <<seo, services, hirePages>>
                     ELSE IF saved.threw
                     THEN /\ last' = Responded("PUT /api/seo-manager/:id", "update",
                                         "SeoManager", 500, old, body, mw, old,
                                         NoSync)
                          /\ UNCHANGED <<seo, services, hirePages>>
                     ELSE /\ seo' = saved.seo
                          /\ IF /\ seoData.isAutoManaged
                                /\ \/ body.slug # "" /\ body.slug # old.slug
                                   \/ body.title # "" /\ body.title # old.title
                             THEN /\ services' = linked.services
                                  /\ hirePages' = linked.hirePages
                             ELSE UNCHANGED <<services, hirePages>>
                          /\ last' = Responded("PUT /api/seo-manager/:id", "update",
                                         "SeoManager", 200, old, body, mw,
                                         seoData, NoSync)
    /\ created' = served
    /\ UNCHANGED <<pOp, pPath, inflight, pOld, pNew, pCalls, gwLog, db>>

\* DELETE /api/seo-manager/:id
SeoDelete ==
    /\ created.requests < MaxRequests
    /\ \E n \in 1..(created.seo + 1), nets \in SyncNetAnswers :
          LET id == ObjectId("SeoManager", n)
              i == findById(seo, id)
              mw == through(cleanupImages(loaded(seoDocs(seo), i), modelNameOf.SeoManager),
                             remote, remote, nets)
          IN  IF mw.status # 0
              THEN /\ last' = Responded("DELETE /api/seo-manager/:id", "delete",
                                        "SeoManager", mw.status, Undef, Undef, mw,
                                        Undef, NoSync)
                   /\ remote' = mw.store /\ UNCHANGED <<seo>>
              ELSE LET seoData == seo[i]
                       deleted == safeDeleteSeoData(seo, seoData.slug)
                   IN  /\ remote' = mw.store
                       /\ seo' = deleted.seo
                       /\ last' = [Responded("DELETE /api/seo-manager/:id",
                                        "delete", "SeoManager",
                                        IF deleted.deleted THEN 200 ELSE 400,
                                        seoData, Undef, mw, Undef, NoSync)
                                   EXCEPT !.slug = seoData.slug]
    /\ created' = served /\ UNCHANGED <<pOp, pPath, inflight, pOld, pNew, pCalls, gwLog, db, services, hirePages>>

Next ==
    \/ ServicePost \/ ServicePut \/ ServiceDelete
    \/ HirePost \/ HirePut \/ HireDelete
    \/ SeoPost \/ SeoPut \/ SeoDelete

Spec == Init /\ [][Next]_vars

-----------------------------------------------------------------------------
(* The synchronizer seen from the last request: what it was called with,   *)
(* the collection it found and the collection it left.                     *)

recordsOf(coll) == {coll[i] : i \in 1..Len(coll)}

Independent(r) == ~r.isAutoManaged
AutoManaged(r) == r.isAutoManaged

linkOf(r, type) == IF type = "service" THEN r.linkedService ELSE r.linkedHirePage

\* some record of the collection is already linked to the content record
\* the synchronizer ran and the storage layer answered its queries
syncRan == last.sync.called /\ ~last.sync.fault

linkedBefore ==
    \E r \in recordsOf(last.seoBefore) :
        linkOf(r, last.sync.type) = last.sync.linkedId

\* the Independent records the call could claim: those with its slug
claimable ==
    {r \in recordsOf(last.seoBefore) : Independent(r) /\ r.slug = last.sync.slug}

\* r was turned into an AutoManaged record of the caller, and the operator's
\* delete request on its slug is now refused and removes nothing
claimed(r) ==
    /\ \E q \in recordsOf(seo) :
          /\ q.id = r.id /\ q.slug = last.sync.slug
          /\ AutoManaged(q)
          /\ q.linkedType = last.sync.type
          /\ linkOf(q, last.sync.type) = last.sync.linkedId
    /\ ~safeDeleteSeoData(seo, last.sync.slug).deleted
    /\ safeDeleteSeoData(seo, last.sync.slug).seo = seo

\* C8 as stated: for any Independent metadata record with slug s,
\* onContentCreateOrRename(title, s, type, id) turns it into an AutoManaged
\* record with linkedType = type and the matching link field = id, and a
\* subsequent onMetadataDeleteRequest(s) returns blocked and leaves the
\* record in place.
SynchronizerClaimAny ==
    syncRan => \A r \in claimable : claimed(r)

\* C8: for any Independent metadata record with slug s,
\* onContentCreateOrRename(title, s, type, id) turns it into an AutoManaged
\* record with linkedType = type and the matching link field = id, and a
\* subsequent onMetadataDeleteRequest(s) returns blocked and leaves the
\* record in place, provided no metadata record is already linked to id.
SynchronizerClaim ==
    (syncRan /\ ~linkedBefore) => \A r \in claimable : claimed(r)

\* a content request made the synchronizer claim an Independent record
IndependentClaimed ==
    /\ syncRan /\ ~linkedBefore
    /\ \E r \in claimable : claimed(r)

\* C9: for any AutoManaged metadata record with slug s, onContentDelete(s)
\* removes the record, whereas onMetadataDeleteRequest(s) on the same state
\* returns blocked and removes nothing; the content DELETE routes and the
\* SEO DELETE route behave accordingly.
ForceDeleteBypass ==
    /\ \A r \in recordsOf(seo) :
          AutoManaged(r) =>
              /\ r \notin recordsOf(forceDeleteSeoData(seo, r.slug))
              /\ Len(forceDeleteSeoData(seo, r.slug)) = Len(seo) - 1
              /\ ~safeDeleteSeoData(seo, r.slug).deleted
              /\ safeDeleteSeoData(seo, r.slug).seo = seo
    /\ (/\ last.kind = "delete" /\ last.status = 200
        /\ last.registered \in {"Service", "HirePageData"}
        /\ last.thrown = {})
          => \A r \in recordsOf(last.seoBefore) :
                (AutoManaged(r) /\ r.slug = last.slug) => r \notin recordsOf(seo)
    /\ (/\ last.kind = "delete" /\ last.status # 404
        /\ last.registered = "SeoManager")
          => \A r \in recordsOf(last.seoBefore) :
                (AutoManaged(r) /\ r.slug = last.slug)
                    => last.status = 400 /\ seo = last.seoBefore

\* a content record was deleted and took its AutoManaged record along, which
\* the operator's delete request would have left in place
ForceDeleted ==
    /\ last.kind = "delete" /\ last.status = 200
    /\ last.registered \in {"Service", "HirePageData"}
    /\ \E r \in recordsOf(last.seoBefore) :
          /\ AutoManaged(r) /\ r.slug = last.slug
          /\ r \notin recordsOf(seo)
          /\ ~safeDeleteSeoData(last.seoBefore, r.slug).deleted

\* the call finds no record by link and none by slug
nothingFound ==
    /\ syncRan /\ ~linkedBefore
    /\ \A r \in recordsOf(last.seoBefore) : r.slug # last.sync.slug

\* C10: when no metadata record is linked to recordId and none has slug
\* newSlug, onContentCreateOrRename creates exactly one new metadata record
\* with that slug in AutoManaged state (isAutoManaged = true, linkedType =
\* recordType, link = recordId) whose seo_title and meta_description are
\* derived from the sub-category/title.
SynchronizerCreation ==
    nothingFound =>
        /\ Len(seo) = Len(last.seoBefore) + 1
        /\ SubSeq(seo, 1, Len(last.seoBefore)) = last.seoBefore
        /\ LET r == seo[Len(seo)]
               derived == orElse(last.sync.subCategory, last.sync.title)
           IN  /\ r.id \notin {q.id : q \in recordsOf(last.seoBefore)}
               /\ r.slug = last.sync.slug
               /\ r.isAutoManaged
               /\ r.linkedType = last.sync.type
               /\ linkOf(r, last.sync.type) = last.sync.linkedId
               /\ r.seo_title = derived
               /\ r.meta_description =
                    <<"Learn more about ", derived,
                      " - professional services and solutions">>

\* a content request made the synchronizer create a record
RecordCreated ==
    /\ nothingFound
    /\ Len(seo) = Len(last.seoBefore) + 1
    /\ seo[Len(seo)].slug = last.sync.slug

\* the number of link fields a record has set
linksSet(r) ==
    (IF r.linkedService # NoId THEN 1 ELSE 0)
        + (IF r.linkedHirePage # NoId THEN 1 ELSE 0)

\* C11: in every reachable state every metadata record satisfies
\* isAutoManaged = true <=> linkedType in {service, hire} <=> exactly one of
\* linkedService / linkedHirePage is set, also when a Service and a HirePage
\* use the same slug.
MetadataLinkInvariant ==
    \A r \in recordsOf(seo) :
        /\ r.isAutoManaged <=> r.linkedType \in {"service", "hire"}
        /\ r.linkedType \in {"service", "hire"} <=> linksSet(r) = 1

\* the AutoManaged records the last request removed from the collection
managedRemoved ==
    {r \in recordsOf(last.seoBefore) :
        AutoManaged(r) /\ r.id \notin {q.id : q \in recordsOf(seo)}}

\* the last request deleted the content record that owns r
ownerDeleted(r) ==
    /\ last.kind = "delete" /\ last.status = 200
    /\ last.registered = (IF r.linkedType = "service" THEN "Service"
                          ELSE "HirePageData")
    /\ linkOf(r, r.linkedType) = last.old.id

\* C12: an AutoManaged metadata record is never removed by the
\* operator-initiated delete path; it leaves the collection only through
\* onContentDelete when its owning content record is deleted.
ManagedLeavesWithOwner ==
    \A r \in managedRemoved : ownerDeleted(r)

\* the last request renamed an AutoManaged metadata record
managedRenamed ==
    /\ last.route = "PUT /api/seo-manager/:id" /\ last.status = 200
    /\ AutoManaged(last.old)
    /\ last.stored.slug # last.old.slug

\* the content records the renamed metadata record is linked to
linkedContent ==
    {c \in recordsOf(IF last.old.linkedType = "service" THEN services
                     ELSE hirePages) :
        c.id = linkOf(last.old, last.old.linkedType)}

\* no other content record holds the new slug, so that writing it cannot fail
slugFree ==
    \A c \in recordsOf(services) \cup recordsOf(hirePages) :
        c \in linkedContent \/ c.slug # last.stored.slug

\* C13: when an AutoManaged metadata record is renamed from oldSlug to a
\* different newSlug through the metadata admin update, the linked content
\* record's slug is newSlug and its subCategory the new title by the time the
\* request completes, provided no storage failure occurs.
ReverseSyncOnRename ==
    (managedRenamed /\ slugFree) =>
        \A c \in linkedContent :
            c.slug = last.stored.slug /\ c.subCategory = last.stored.title

-----------------------------------------------------------------------------
(* The two cleanup middlewares on their own: mounted on a route whose      *)
(* handler only answers, for a registered and an unregistered type name.   *)

CleanupTypes == {"HirePageData", "Unlisted"}
CleanupDocs ==
    {hireDoc(r, q) : r \in {RefA, RefB}, q \in {RefA, RefB, EmptyString}}
CleanupRecords == CleanupDocs \cup {Null}

\* the assets the storage service holds for the images of a document
held(doc) == IF Truthy(doc) THEN assetsNamed(doc, "HirePageData") ELSE {}

InitCleanup ==
    /\ InitIdleHarness
    /\ remote = {}
    /\ gwLog = <<>>
    /\ db = NoDocuments
    /\ services = <<>> /\ hirePages = <<>> /\ seo = <<>>
    /\ created = NoneCreated
    /\ last = NoRequest
    /\ inflight = NoneInFlight

\* cleanupImages(model) followed by next()
CleanupAll ==
    /\ \E type \in CleanupTypes, record \in CleanupRecords, nets \in NetAnswers :
          LET mw == through(cleanupImages(record, type), {}, held(record), nets)
          IN  /\ remote' = mw.store
              /\ last' = Completed("cleanupImages", "delete", type,
                                   IF mw.status # 0 THEN mw.status ELSE 200,
                                   record, Undef, mw, Undef)
    /\ UNCHANGED <<pOp, pPath, inflight, pOld, pNew, pCalls, gwLog, db, content>>

\* cleanupOldImages(model, modelName) followed by next()
CleanupChanged ==
    /\ \E type \in CleanupTypes, record \in CleanupRecords,
          body \in CleanupDocs, nets \in NetAnswers :
          LET mw == through(cleanupOldImages(record, body, type), {},
                            held(record) \cup held(body), nets)
          IN  /\ remote' = mw.store
              /\ last' = Completed("cleanupOldImages", "update", type,
                                   IF mw.status # 0 THEN mw.status ELSE 200,
                                   record, body, mw, Undef)
    /\ UNCHANGED <<pOp, pPath, inflight, pOld, pNew, pCalls, gwLog, db, content>>

NextCleanup == CleanupAll \/ CleanupChanged

SpecCleanup == InitCleanup /\ [][NextCleanup]_vars

\* the last request went through a cleanup middleware that found its record
cleanupRan == last.stage # "none" /\ last.status # 404

\* a deletion that did not succeed: the gateway raised or answered otherwise
failedAttempt(a) == a.sent /\ a.res \notin {"ok", "not found"}

\* C14: within one cleanupAll or cleanupChanged invocation a failed deletion
\* (gateway error or non-success response) does not stop the deletions that
\* follow it: every reference selected for deletion is attempted, the ones
\* the storage service answered are gone, and the request proceeds to its
\* handler.
BestEffortCleanup ==
    cleanupRan =>
        /\ Len(last.attempts) = Len(last.calls)
        /\ \A k \in 1..Len(last.attempts) :
              /\ last.attempts[k].url = last.calls[k]
              /\ ~last.attempts[k].raised
              /\ last.attempts[k].sent = IsImage(last.calls[k])
              /\ last.attempts[k].res \in {"ok", "not found"}
                    => assetOf(last.calls[k]) \notin remote
        /\ last.stage = "handler"
        /\ last.status = 200

\* a deletion failed and a later one of the same invocation went through
FailedThenDeleted ==
    /\ cleanupRan /\ last.stage = "handler"
    /\ \E k \in 1..Len(last.attempts), j \in 1..Len(last.attempts) :
          /\ k < j
          /\ failedAttempt(last.attempts[k])
          /\ last.attempts[j].res = "ok"

\* the last request ran a cleanup middleware under a type name without a
\* registry entry, on a record that exists
unlistedCleanup ==
    /\ cleanupRan
    /\ last.registered \notin DOMAIN imageConfig

\* C16: for a record type name with no entry in the Path Descriptor
\* Registry, both full cleanup and differential cleanup issue no deletion
\* and raise no error; the request continues to its handler.
UnknownTypeNoOp ==
    unlistedCleanup =>
        /\ last.calls = <<>> /\ last.attempts = <<>>
        /\ last.stage = "handler" /\ last.status = 200
        /\ remote = held(last.old)
                      \cup (IF last.kind = "update" THEN held(last.body) ELSE {})

\* full cleanup under an unregistered name left the images of the record
UnlistedFullCleanup ==
    /\ unlistedCleanup /\ last.kind = "delete"
    /\ held(last.old) # {} /\ held(last.old) \subseteq remote


\* the synchronizer threw during the last content request, on the storage
\* layer's rejection or on a slug that another metadata record holds
syncFailed ==
    /\ last.registered \in {"Service", "HirePageData"}
    /\ last.stage = "handler"
    /\ last.thrown # {}

contentOf(registered) == IF registered = "Service" THEN services ELSE hirePages

\* C15: a failure inside the synchronizer during a Service or HirePage
\* create, update or delete never fails that content request: the content
\* record is still created, updated or deleted and the request reports
\* success.
SyncFailureAbsorbed ==
    syncFailed =>
        /\ last.kind = "create" =>
              /\ last.status = 201
              /\ last.stored \in recordsOf(contentOf(last.registered))
        /\ last.kind = "update" =>
              /\ last.status = 200
              /\ last.stored \in recordsOf(contentOf(last.registered))
              /\ last.stored.slug = last.body.slug
              /\ last.stored.subCategory = last.body.subCategory
        /\ last.kind = "delete" =>
              /\ last.status = 200
              /\ last.old \notin recordsOf(contentOf(last.registered))

\* a content update whose synchronizer call hit a taken slug, not a storage
\* fault, and still answered 200
UniqueSlugAbsorbed ==
    /\ syncFailed /\ last.kind = "update"
    /\ ~last.sync.fault /\ last.sync.threw
    /\ last.status = 200

\* the last request was a Service or HirePage update that changed the slug
\* or the subCategory and answered 200
contentRenamed ==
    /\ last.registered \in {"Service", "HirePageData"}
    /\ last.kind = "update" /\ last.status = 200
    /\ last.sync.called

\* the metadata records linked to the renamed content record
linkedTo(coll) ==
    {r \in recordsOf(coll) : linkOf(r, last.sync.type) = last.stored.id}

\* C17: after a Service or HirePage update that changes the slug or
\* subCategory completes successfully, the metadata record linked to that
\* content record has slug equal to the content record's new slug and title
\* equal to its subCategory, and still links to the same content record.
SlugKeptInSync ==
    contentRenamed =>
        \A r \in linkedTo(last.seoBefore) :
            \E q \in linkedTo(seo) :
                /\ q.id = r.id
                /\ q.slug = last.stored.slug
                /\ q.title = last.stored.subCategory

\* C18: no public operation of the core (full cleanup, differential
\* cleanup, onContentCreateOrRename, onContentDelete,
\* onMetadataDeleteRequest, onMetadataRename) propagates an error to its
\* caller: when a storage or gateway call inside it fails, the operation
\* absorbs the failure and returns normally.  last.thrown names the
\* operations of the core that threw to the route during the last request.
NothingPropagates == last.thrown = {}

-----------------------------------------------------------------------------
(* The differ on the registered path with two "[]" segments *)

\* "dedicatedDeveloperSection.services[].serviceItemBox[].image"
nestedTwice == imageConfig.HireMainPageData[2]

\* the payload carries "cdn/a.png" wherever it carries an image
InitNested ==
    /\ pOp = "idle"
    /\ pPath = nestedTwice
    /\ pOld \in NodesAt(nestedTwice, 1, ImageStrings)
    /\ pNew \in NodesAt(nestedTwice, 1, {Str(RefA)}) \cup {Undef}
    /\ pCalls = <<>>
    /\ InitRest

ApplyDiffNested ==
    /\ pOp = "idle"
    /\ pPath = nestedTwice
    /\ pOp' = "diff"
    /\ pCalls' = compareAndDeleteByPath(pOld, pNew, pPath)
    /\ UNCHANGED <<pPath, inflight, pOld, pNew, remote, gwLog, db, content, last>>

NextNested == ApplyDiffNested

SpecNested == InitNested /\ [][NextNested]_vars

\* C19: for a registered path with two "[]" segments (a.b[].c[].image) the
\* differ walks b positionally, then c positionally inside each paired
\* element, and requests deletion of old b[i].c[j].image exactly when it
\* differs from the new value at the same indices.
NestedTwiceDiff ==
    LET f == FirstBracket(pPath, 1)
        b == SubSeq(pPath, 1, f)
        c == <<pPath[f + 1]>>
        leaf == SubSeq(pPath, f + 2, Len(pPath))
        oldB == valueAt(pOld, b, 1)
        newB == valueAt(pNew, b, 1)
        oldC(i) == valueAt(oldB.v[i], c, 1)
        newC(i) == IF newB.t = "arr" /\ i <= Len(newB.v)
                   THEN valueAt(newB.v[i], c, 1) ELSE Undef
        oldImage(i, j) == valueAt(oldC(i).v[j], leaf, 1)
        newImage(i, j) == IF newC(i).t = "arr" /\ j <= Len(newC(i).v)
                          THEN valueAt(newC(i).v[j], leaf, 1) ELSE Undef
        row(i) ==
            IF oldC(i).t # "arr" THEN <<>>
            ELSE LET idx == SelectSeq([j \in 1..Len(oldC(i).v) |-> j],
                                      LAMBDA j : /\ IsImage(oldImage(i, j))
                                                 /\ differsFrom(oldImage(i, j),
                                                                newImage(i, j)))
                 IN  [k \in 1..Len(idx) |-> oldImage(i, idx[k])]
    IN  (pOp = "diff" /\ pPath = nestedTwice /\ oldB.t = "arr")
        => sentCalls(pCalls) = concatMap([i \in 1..Len(oldB.v) |-> row(i)], 1, <<>>)

-----------------------------------------------------------------------------
(* The asset identifier of a reference (SpecGateway) *)

\* a segment with only its file extension removed: the pieces between its
\* dots but the last, or the segment itself when it has no dot
withoutExtension(segment) ==
    IF Len(segment) > 1 THEN SubSeq(segment, 1, Len(segment) - 1) ELSE segment

\* C20: the gateway's asset identifier for a reference is the reference's
\* last "/"-separated segment with only its file extension removed, for
\* every reference string, including segments that contain more than one
\* dot.
IdentifierStripsExtension ==
    \A i \in 1..Len(gwLog) :
        gwLog[i].sent =>
            LET segments == gwLog[i].url.v IN
            <<gwLog[i].id>> = withoutExtension(segments[Len(segments)])

-----------------------------------------------------------------------------
(* Further properties of the synchronizer (Spec) *)

\* the records of the collection that are not linked to the content record
\* of the last synchronizer call
notLinked(coll) ==
    {r \in recordsOf(coll) : linkOf(r, last.sync.type) # last.sync.linkedId}

\* C21: lookup order in onContentCreateOrRename: the metadata record linked
\* to recordId is looked up first and, when it exists, is the record that
\* gets updated; the lookup by slug is used only when no record is linked
\* to recordId, so a different record that happens to hold newSlug is left
\* unmodified.
LookupByLinkFirst ==
    (syncRan /\ linkedBefore) =>
        /\ notLinked(last.seoBefore) \subseteq recordsOf(seo)
        /\ ~last.sync.threw =>
              \A r \in recordsOf(last.seoBefore) \ notLinked(last.seoBefore) :
                  \E q \in recordsOf(seo) :
                      /\ q.id = r.id /\ q.slug = last.sync.slug
                      /\ linkOf(q, last.sync.type) = last.sync.linkedId

\* a record linked to the content record existed while another record held
\* the new slug, and that other record is as it was
SlugHolderUntouched ==
    /\ syncRan /\ linkedBefore
    /\ \E r \in notLinked(last.seoBefore) :
          r.slug = last.sync.slug /\ r \in recordsOf(seo)

\* the metadata collection after the synchronizer runs once more on the
\* current collection with the arguments of its last call
ranAgain ==
    syncSeoData(seo, last.sync.subCategory, last.sync.slug, last.sync.title,
                last.sync.type, last.sync.linkedId, nextSeoId).seo

\* C22: synchronizer idempotence: from any reachable state, running
\* onContentCreateOrRename a second time with the same arguments leaves the
\* metadata collection exactly as the first run left it (no new record, no
\* field changed).
SynchronizerIdempotent == syncRan => ranAgain = seo

\* the first run renamed a record that was already linked, and a second
\* run changes nothing
RenamedThenUnchanged ==
    /\ syncRan /\ ~last.sync.threw /\ linkedBefore
    /\ seo # last.seoBefore
    /\ ranAgain = seo

-----------------------------------------------------------------------------
(* Concurrent updates of one HomeChooseIts record.  Each request is the    *)
(* awaits of its middleware and handler, one step per await: the           *)
(* middleware's findById, its deletions, and the handler's                 *)
(* findByIdAndUpdate.  Nothing locks the record between the steps.         *)

Racers == 1..MaxConcurrent

\* payloads that carry the image field
FullBodies == {Obj("image" :> x) : x \in ImageStrings}

Waiting ==
    [pc |-> "waiting", body |-> Undef, record |-> Undef, overlapped |-> FALSE,
     stale |-> FALSE]

InitRace ==
    /\ InitIdleHarness
    /\ \E x \in ImageStrings :
          /\ db = [NoDocuments EXCEPT !.HomeChooseIts = Obj("image" :> x)]
          /\ remote = {assetOf(x)}
    /\ gwLog = <<>>
    /\ services = <<>> /\ hirePages = <<>> /\ seo = <<>>
    /\ created = NoneCreated
    /\ last = NoRequest
    /\ inflight = [r \in Racers |-> Waiting]

\* the client has uploaded the image of its payload and sends PUT
\* /api/choose_its_home/:id
Arrive(r) ==
    /\ inflight[r].pc = "waiting"
    /\ \E body \in FullBodies :
          /\ remote' = remote \cup assetsNamed(body, "HomeChooseIts")
          /\ inflight' =
                [inflight EXCEPT
                    ![r] = [@ EXCEPT
                              !.pc = "arrived", !.body = body,
                              !.overlapped =
                                  \E q \in Racers \ {r} :
                                      inflight[q].pc \notin {"waiting", "done"}]]
    /\ UNCHANGED <<pOp, pPath, pOld, pNew, pCalls, gwLog, db, content, last>>

\* cleanupOldImages: const record = await model.findById(req.params.id)
FindRecord(r) ==
    /\ inflight[r].pc = "arrived"
    /\ inflight' = [inflight EXCEPT ![r] = [@ EXCEPT !.pc = "found",
                                                    !.record = db.HomeChooseIts]]
    /\ UNCHANGED <<pOp, pPath, pOld, pNew, pCalls, remote, gwLog, db, content, last>>

\* cleanupOldImages: the loop over the paths, on the record it has read
DiffRecord(r) ==
    /\ inflight[r].pc = "found"
    /\ \E nets \in SyncNetAnswers :
          LET mw == through(cleanupOldImages(inflight[r].record, inflight[r].body,
                                             "HomeChooseIts"),
                            remote, remote, nets)
          IN  /\ remote' = mw.store
              /\ inflight' = [inflight EXCEPT ![r] = [@ EXCEPT !.pc = "cleaned"]]
    /\ UNCHANGED <<pOp, pPath, pOld, pNew, pCalls, gwLog, db, content, last>>

\* the handler: findByIdAndUpdate(req.params.id, {...req.body})
HandleUpdate(r) ==
    /\ inflight[r].pc = "cleaned"
    /\ db' = [db EXCEPT
                !.HomeChooseIts = findByIdAndUpdate(db.HomeChooseIts, inflight[r].body)]
    /\ inflight' = [inflight EXCEPT
                        ![r] = [@ EXCEPT !.pc = "done",
                                         !.stale = (inflight[r].record
                                                     # db.HomeChooseIts)]]
    /\ UNCHANGED <<pOp, pPath, pOld, pNew, pCalls, remote, gwLog, content, last>>

NextRace ==
    \E r \in Racers : Arrive(r) \/ FindRecord(r) \/ DiffRecord(r) \/ HandleUpdate(r)

SpecRace == InitRace /\ [][NextRace]_vars

allDone == \A r \in Racers : inflight[r].pc = "done"

\* an image of the stored record is missing from remote storage
heldLost == ~(assetsNamed(db.HomeChooseIts, "HomeChooseIts") \subseteq remote)

\* C23: with two update requests on the same record running concurrently
\* and no locking, differential cleanup can diff against an old snapshot
\* that another request has already superseded: a state is reachable in
\* which an image reference held by the finally stored record has been
\* deleted from remote storage (StaleDiffLostImage).  With payloads that
\* carry the image, that state is reachable only when the requests overlap.
LossNeedsOverlap ==
    (allDone /\ heldLost) => \E r \in Racers : inflight[r].overlapped

\* every request is done, one of them diffed against a record that was
\* replaced before its handler ran, and the stored image is gone
StaleDiffLostImage ==
    /\ allDone /\ heldLost
    /\ \E r \in Racers : inflight[r].stale

-----------------------------------------------------------------------------
(* Requests that end in a refusal (Spec) *)

\* the operator's delete request on a metadata record was refused
deleteBlocked ==
    /\ last.route = "DELETE /api/seo-manager/:id"
    /\ last.stage = "handler" /\ last.status = 400

\* C24: a blocked metadata delete leaves everything unchanged: when the
\* operator delete request on an AutoManaged metadata record is refused,
\* neither the metadata record nor its cover_image remote asset has been
\* deleted.
BlockedDeleteChangesNothing ==
    deleteBlocked =>
        /\ last.old \in recordsOf(seo)
        /\ sentCalls(last.calls) = <<>>
        /\ assetsNamed(seoDoc(last.old), "SeoManager") \subseteq remote

\* an update request passed its cleanup middleware and was answered 400 by
\* the handler's validation or slug check
updateRejected ==
    /\ last.kind = "update"
    /\ last.stage = "handler" /\ last.status = 400

\* C25: a rejected update changes nothing: if an update request ends in a
\* rejection after the cleanup middleware has run (required-field
\* validation failure or slug conflict answered with 400), no remote
\* deletion has been issued for it, so the stored record and the remote
\* assets it references are both as before the request.
RejectedUpdateChangesNothing ==
    updateRejected =>
        /\ last.stored = last.old
        /\ sentCalls(last.calls) = <<>>

-----------------------------------------------------------------------------
(* The operator's safe delete against a synchronizer call, await by await. *)
(* safeDeleteSeoData reads the record by slug, tests the copy it read, and *)
(* then deletes by slug; syncSeoData reads the record it will write, then  *)
(* saves it.  The storage layer serialises single queries only.            *)

\* null: findOne found no document
NoRecord == seoDefaults(NoId)

\* a record the operator created
operatorRecord(slug) ==
    [seoDefaults(ObjectId("SeoManager", 1)) EXCEPT !.title = "T1", !.slug = slug]

\* the record the synchronizer created for hire page 1
hireRecord(slug) ==
    newManaged(ObjectId("SeoManager", 2), "T2", slug, linkFieldMap.hire, "hire",
               ObjectId("HirePageData", 1))

\* the record the synchronizer created for service 1
serviceRecord(slug) ==
    newManaged(ObjectId("SeoManager", 3), "T1", slug, linkFieldMap.service,
               "service", ObjectId("Service", 1))

SeedCollections ==
    {<<>>}
    \cup {<<operatorRecord(x)>> : x \in Slugs}
    \cup {<<serviceRecord(x)>> : x \in Slugs}
    \cup {<<operatorRecord(p[1]), hireRecord(p[2])>> :
               p \in {q \in Slugs \X Slugs : q[1] # q[2]}}
    \cup {<<operatorRecord(p[1]), serviceRecord(p[2])>> :
               p \in {q \in Slugs \X Slugs : q[1] # q[2]}}

InitClaimRace ==
    /\ InitIdleHarness
    /\ remote = {} /\ gwLog = <<>> /\ db = NoDocuments
    /\ services = <<>> /\ hirePages = <<>>
    /\ seo \in SeedCollections
    /\ created = [NoneCreated EXCEPT !.seo = 3]
    /\ last = NoRequest
    /\ \E slug \in Slugs, newSlug \in Slugs, subCategory \in Titles :
          inflight =
              [delete |-> [pc |-> "start", slug |-> slug, seoEntry |-> NoRecord,
                           removed |-> NoRecord],
               sync |-> [pc |-> "start", slug |-> newSlug, subCategory |-> subCategory,
                         existingSeo |-> NoRecord]]

\* safeDeleteSeoData: const seoEntry = await SeoManager.findOne({ slug })
DeleteFind ==
    /\ inflight.delete.pc = "start"
    /\ LET i == findOne(seo, {d \in documents(seo) : d.slug = inflight.delete.slug})
       IN  inflight' = [inflight EXCEPT
                           !.delete.pc = "read",
                           !.delete.seoEntry = IF i # 0 THEN seo[i] ELSE NoRecord]
    /\ UNCHANGED <<pOp, pPath, pOld, pNew, pCalls, remote, gwLog, db, content, last>>

\* safeDeleteSeoData: the test of seoEntry and
\* await SeoManager.findOneAndDelete({ slug })
DeleteRemove ==
    /\ inflight.delete.pc = "read"
    /\ LET seoEntry == inflight.delete.seoEntry
           i == findOne(seo, {d \in documents(seo) : d.slug = inflight.delete.slug})
       IN  IF seoEntry # NoRecord /\ ~seoEntry.isAutoManaged /\ i # 0
           THEN /\ seo' = removeAt(seo, i)
                /\ inflight' = [inflight EXCEPT !.delete.pc = "done",
                                                !.delete.removed = seo[i]]
           ELSE /\ seo' = seo
                /\ inflight' = [inflight EXCEPT !.delete.pc = "done"]
    /\ UNCHANGED <<pOp, pPath, pOld, pNew, pCalls, remote, gwLog, db, services,
                   hirePages, created, last>>

\* syncSeoData: the two findOne queries
SyncLookup ==
    /\ inflight.sync.pc = "start"
    /\ LET i == lookupExisting(seo, linkFieldMap.service, ObjectId("Service", 1),
                               inflight.sync.slug)
       IN  inflight' = [inflight EXCEPT
                           !.sync.pc = "read",
                           !.sync.existingSeo = IF i # 0 THEN seo[i] ELSE NoRecord]
    /\ UNCHANGED <<pOp, pPath, pOld, pNew, pCalls, remote, gwLog, db, content, last>>

\* what syncSeoData writes once it holds existingSeo: save() of a document
\* that is no longer stored writes nothing
syncWrite(coll, existingSeo, subCategory, slug, type, linkedId, freshId) ==
    LET linkField == linkFieldMap[type]
        at == findOne(coll, {d \in documents(coll) : d.id = existingSeo.id})
    IN  IF existingSeo = NoRecord
        THEN saveSeo(coll, Len(coll) + 1,
                     newManaged(freshId, subCategory, slug, linkField, type, linkedId))
        ELSE IF at = 0 THEN [threw |-> TRUE, seo |-> coll]
        ELSE IF ~existingSeo.isAutoManaged /\ existingSeo.linkedType = "independent"
        THEN saveSeo(coll, at,
                     claimIndependent(existingSeo, subCategory, slug, linkField, type,
                                      linkedId))
        ELSE IF existingSeo.isAutoManaged \/ existingSeo.linkedType = type
        THEN saveSeo(coll, at,
                     updateManaged(existingSeo, subCategory, slug, linkField, type,
                                   linkedId))
        ELSE [threw |-> FALSE, seo |-> coll]

\* syncSeoData: the assignments and await existingSeo.save() / newSeo.save()
SyncSave ==
    /\ inflight.sync.pc = "read"
    /\ seo' = syncWrite(seo, inflight.sync.existingSeo, inflight.sync.subCategory,
                        inflight.sync.slug, "service", ObjectId("Service", 1),
                        nextSeoId).seo
    /\ inflight' = [inflight EXCEPT !.sync.pc = "done"]
    /\ UNCHANGED <<pOp, pPath, pOld, pNew, pCalls, remote, gwLog, db, services,
                   hirePages, created, last>>

NextClaimRace == DeleteFind \/ DeleteRemove \/ SyncLookup \/ SyncSave

SpecClaimRace == InitClaimRace /\ [][NextClaimRace]_vars

\* C26: under interleaving of an operator delete request for slug s with an
\* onContentCreateOrRename that claims the metadata record with slug s, the
\* safe path never removes a record that is AutoManaged at the moment of
\* removal (its check of the managed state and its delete by slug are not
\* separated by a claim).
SafePathNeverRemovesManaged == ~inflight.delete.removed.isAutoManaged

-----------------------------------------------------------------------------
(* The force path of the content delete routes (Spec) *)

\* a Service or HirePage delete request completed and its force delete
\* did not throw
contentDeleted ==
    /\ last.kind = "delete" /\ last.status = 200
    /\ last.registered \in {"Service", "HirePageData"}
    /\ last.thrown = {}

\* the link of r to the collection of the deleted content record
linkToDeleted(r) ==
    IF last.registered = "Service" THEN r.linkedService ELSE r.linkedHirePage

\* C27: when a Service or HirePage delete request completes, the metadata
\* record removed by the force path is exactly the one linked to the
\* deleted content record: no metadata record linked to the deleted record
\* remains, and no metadata record that is Independent or linked to another
\* content record is removed, in every state reachable after renames and
\* failed syncs.
ForceDeleteExact ==
    contentDeleted =>
        /\ \A r \in recordsOf(seo) : linkToDeleted(r) # last.old.id
        /\ \A r \in recordsOf(last.seoBefore) \ recordsOf(seo) :
              /\ AutoManaged(r)
              /\ linkToDeleted(r) = last.old.id

\* the AutoManaged records that were linked to a content record other than
\* the one the synchronizer was called for
managedByOthers ==
    {r \in notLinked(last.seoBefore) :
        AutoManaged(r) /\ (r.linkedService # NoId \/ r.linkedHirePage # NoId)}

\* C28: onContentCreateOrRename never changes linkedType, linkedService or
\* linkedHirePage of a metadata record that is AutoManaged and linked to a
\* content record other than recordId (a record reached only through the
\* slug lookup).
OthersLinksKept ==
    syncRan =>
        \A r \in managedByOthers :
            \E q \in recordsOf(seo) :
                /\ q.id = r.id
                /\ q.linkedType = r.linkedType
                /\ q.linkedService = r.linkedService
                /\ q.linkedHirePage = r.linkedHirePage

\* C29: in every reachable state no two metadata records have the same
\* slug, across metadata create, metadata update, synchronizer
\* claim/update/create and content delete.
UniqueSlugs ==
    \A i \in 1..Len(seo) : \A j \in 1..Len(seo) :
        i # j => seo[i].slug # seo[j].slug

\* the synchronizer tried to give its record a slug that another record
\* holds, and the save was refused
DuplicateRefused ==
    /\ syncRan /\ last.sync.threw /\ linkedBefore
    /\ \E r \in notLinked(seo) : r.slug = last.sync.slug
    /\ seo = last.seoBefore

-----------------------------------------------------------------------------
(* Identifiers of distinct references (SpecGateway) *)

\* C30: distinct image references derive distinct remote asset
\* identifiers, so requesting deletion of one reference never removes the
\* remote asset of a different reference that some record still holds.
DistinctReferencesDistinctIds ==
    \A i \in 1..Len(gwLog) : \A j \in 1..Len(gwLog) :
        (/\ gwLog[i].sent /\ gwLog[j].sent
         /\ gwLog[i].url # gwLog[j].url)
            => gwLog[i].id # gwLog[j].id

====
